---------------------------- MODULE Spec2Model ----------------------------
(***************************************************************************)
(* Voice memo transcriber: the destination abstraction (Google Docs and    *)
(* Obsidian), the grouping strategies, the persisted group -> document     *)
(* map, and the orchestrator loop that transcribes, appends and marks.     *)
(*                                                                         *)
(* Text is modelled by TLA+ strings (keys, titles, ids, document bodies)   *)
(* and files of lines by sequences of strings.  Decorative characters of   *)
(* the source (emoji, the 50 box-drawing dashes) are abbreviated to ASCII. *)
(***************************************************************************)
EXTENDS Integers, Sequences, FiniteSets, TLC

(***************************************************************************)
(* Bounds of the model.                                                    *)
(***************************************************************************)
MaxCalls == 3      \* destination calls made by the free caller
MaxMemos == 2      \* audio files present in the recordings folder
MaxRuns == 2       \* invocations of the tool (the first one included)
MaxFaults == 2     \* failing external calls or process kills over a behaviour

(***************************************************************************)
(* Strings.                                                                *)
(***************************************************************************)
\* str.startswith(prefix)
StartsWith(s, prefix) ==
  /\ Len(s) >= Len(prefix)
  /\ SubSeq(s, 1, Len(prefix)) = prefix

\* str.endswith(suffix)
EndsWith(s, suffix) ==
  /\ Len(s) >= Len(suffix)
  /\ SubSeq(s, Len(s) - Len(suffix) + 1, Len(s)) = suffix

\* The positions at which sub occurs in s (1-based).
Occurrences(s, sub) ==
  {i \in 1..(Len(s) - Len(sub) + 1) : SubSeq(s, i, i + Len(sub) - 1) = sub}

\* sub in s
Contains(s, sub) == Occurrences(s, sub) # {}

\* The least number of a non-empty set.
Least(S) == CHOOSE i \in S : \A j \in S : i <= j

LeastOr0(S) == IF S = {} THEN 0 ELSE Least(S)

\* s.index(sub), 1-based; 0 when sub does not occur
IndexOf(s, sub) == LeastOr0(Occurrences(s, sub))

\* s[from:], from 1-based
Tail_(s, from) == SubSeq(s, from, Len(s))

CharAt(s, i) == SubSeq(s, i, i)

Digits == {"0", "1", "2", "3", "4", "5", "6", "7", "8", "9"}

IsDigits(s) ==
  /\ Len(s) > 0
  /\ \A i \in 1..Len(s) : CharAt(s, i) \in Digits

DigitVal(c) ==
  CASE c = "0" -> 0 [] c = "1" -> 1 [] c = "2" -> 2 [] c = "3" -> 3
    [] c = "4" -> 4 [] c = "5" -> 5 [] c = "6" -> 6 [] c = "7" -> 7
    [] c = "8" -> 8 [] c = "9" -> 9

RECURSIVE ParseDigits(_)
ParseDigits(s) ==
  IF Len(s) = 0 THEN 0
  ELSE 10 * ParseDigits(SubSeq(s, 1, Len(s) - 1)) + DigitVal(CharAt(s, Len(s)))

\* f"{n:02d}"
Pad2(n) == IF n < 10 THEN "0" \o ToString(n) ELSE ToString(n)

(***************************************************************************)
(* Dates.  A datetime is [days, hour]: days since 1970-01-01 and the hour  *)
(* of the day; the calendar fields are those of the proleptic Gregorian    *)
(* calendar that datetime uses.                                            *)
(***************************************************************************)
\* datetime.weekday(): Monday is 0 (1970-01-01 was a Thursday)
Weekday(dt) == (dt.days + 3) % 7

\* The Sunday on or before the date: a week that starts on Sunday.
SundayOf(dt) == [dt EXCEPT !.days = dt.days - ((dt.days + 4) % 7)]

\* date - timedelta(days=date.weekday()): the time of day is kept
MondayOf(dt) == [dt EXCEPT !.days = dt.days - Weekday(dt)]

\* (year, month, day) of a day number, by way of the calendar whose years
\* start on March 1st: the day of the 400-year era (doe), the year of the
\* era (yoe), the day of that year (doy) and its month (mp)
CivilFromMarch(y, doy, mp) ==
  [year |-> y + (IF mp < 10 THEN 0 ELSE 1),
   month |-> IF mp < 10 THEN mp + 3 ELSE mp - 9,
   day |-> doy - ((153 * mp + 2) \div 5) + 1]

CivilOfDay(y, doy) == CivilFromMarch(y, doy, (5 * doy + 2) \div 153)

CivilOfYear(era, doe, yoe) ==
  CivilOfDay(yoe + era * 400, doe - (365 * yoe + (yoe \div 4) - (yoe \div 100)))

CivilOfEra(era, doe) ==
  CivilOfYear(era, doe,
    (doe - (doe \div 1460) + (doe \div 36524) - (doe \div 146096)) \div 365)

Civil(days) ==
  CivilOfEra((days + 719468) \div 146097, (days + 719468) % 146097)

MonthName(m) ==
  CASE m = 1 -> "January" [] m = 2 -> "February" [] m = 3 -> "March"
    [] m = 4 -> "April" [] m = 5 -> "May" [] m = 6 -> "June"
    [] m = 7 -> "July" [] m = 8 -> "August" [] m = 9 -> "September"
    [] m = 10 -> "October" [] m = 11 -> "November" [] m = 12 -> "December"

\* %Y-%m-%d
IsoDate(c) == ToString(c.year) \o "-" \o Pad2(c.month) \o "-" \o Pad2(c.day)

\* The calendar fields c and the hour formatted by fmt.
Format(c, hour, fmt) ==
  CASE fmt = "%Y-%m-%d" -> IsoDate(c)
    [] fmt = "%Y-%m" -> ToString(c.year) \o "-" \o Pad2(c.month)
    [] fmt = "%B %d, %Y" ->
         MonthName(c.month) \o " " \o Pad2(c.day) \o ", " \o ToString(c.year)
    [] fmt = "%B %Y" -> MonthName(c.month) \o " " \o ToString(c.year)
    [] fmt = "%Y-%m-%d %Hh" -> IsoDate(c) \o " " \o Pad2(hour) \o "h"
    [] fmt = "%Y-%m-%d %H:%M:%S" -> IsoDate(c) \o " " \o Pad2(hour) \o ":00:00"

\* datetime.strftime(fmt) for the directives the configurations below use
Strftime(dt, fmt) == Format(Civil(dt.days), dt.hour, fmt)

(***************************************************************************)
(* Metadata of an audio file: a dict with optional keys title, duration,   *)
(* device.  A dict is a function whose domain is its set of keys.          *)
(***************************************************************************)
NoMeta == <<>>

\* dict.get(key, default)
Get(dict, key, default) == IF key \in DOMAIN dict THEN dict[key] ELSE default

UpperCase == "ABCDEFGHIJKLMNOPQRSTUVWXYZ"
LowerCase == "abcdefghijklmnopqrstuvwxyz"
WordChars == "abcdefghijklmnopqrstuvwxyzABCDEFGHIJKLMNOPQRSTUVWXYZ0123456789_"

\* c.lower(), and "-" for a space
LowerChar(c) ==
  IF Contains(UpperCase, c) THEN CharAt(LowerCase, IndexOf(UpperCase, c))
  ELSE IF c = " " THEN "-"
  ELSE c

RECURSIVE LowerHyphen(_)
\* name.lower().replace(" ", "-")
LowerHyphen(s) ==
  IF Len(s) = 0 THEN ""
  ELSE LowerChar(CharAt(s, 1)) \o LowerHyphen(Tail_(s, 2))

\* c.lower()
LowerLetter(c) ==
  IF Contains(UpperCase, c) THEN CharAt(LowerCase, IndexOf(UpperCase, c)) ELSE c

RECURSIVE Lower(_)
\* str.lower()
Lower(s) ==
  IF Len(s) = 0 THEN "" ELSE LowerLetter(CharAt(s, 1)) \o Lower(Tail_(s, 2))

\* grouping.lower() for the comparison with the names of known, which are
\* in lower case: a name of known is its own lower case
LowerName(name, known) == IF name \in known THEN name ELSE Lower(name)

RECURSIVE WordRun(_, _)
\* The longest run of \w characters of s that starts at position i.
WordRun(s, i) ==
  IF i <= Len(s) /\ Contains(WordChars, CharAt(s, i))
    THEN CharAt(s, i) \o WordRun(s, i + 1)
    ELSE ""

\* The positions of title at which #(\w+) matches.
TagStarts(title) ==
  {i \in 1..Len(title) : CharAt(title, i) = "#" /\ WordRun(title, i + 1) # ""}

FirstTag(title, starts) ==
  IF starts = {} THEN "" ELSE WordRun(title, Least(starts) + 1)

\* re.compile(r"#(\w+)").search(title): group(1) of the leftmost match,
\* "" when there is no match
TagMatch(title) == FirstTag(title, TagStarts(title))

(***************************************************************************)
(* Document grouping strategies.                                           *)
(***************************************************************************)
DocGroupings == {"weekly", "monthly", "quarterly", "yearly", "tag", "single"}

\* A factory that takes weekly grouping for a name it does not know.
DocStrategyOrWeekly(c) ==
  IF c.doc_id # "" THEN "single"
  ELSE IF c.use_weekly_docs = "false" THEN "single"
  ELSE IF LowerName(c.doc_grouping, DocGroupings) \in DocGroupings
    THEN LowerName(c.doc_grouping, DocGroupings)
  ELSE "weekly"

\* A factory that looks at doc_grouping alone.
DocStrategyByName(c) ==
  IF LowerName(c.doc_grouping, DocGroupings) \in DocGroupings
    THEN LowerName(c.doc_grouping, DocGroupings)
  ELSE "ValueError"

\* The strategy _create_doc_grouping_strategy constructs; use_weekly_docs
\* is "unset" when the key is absent.
DocStrategy(c) ==
  IF c.doc_id # "" THEN "single"
  ELSE IF c.use_weekly_docs = "false" THEN "single"
  ELSE IF LowerName(c.doc_grouping, DocGroupings) \in DocGroupings
    THEN LowerName(c.doc_grouping, DocGroupings)
  ELSE "ValueError"

WeeklyKey(dt) == Strftime(MondayOf(dt), "%Y-%m-%d")

QuarterKey(c) ==
  ToString(c.year) \o "-Q" \o ToString(((c.month - 1) \div 3) + 1)

TagKeyOf(tag) == IF tag # "" THEN "tag-" \o tag ELSE "untagged"

TagKey(meta) == TagKeyOf(TagMatch(Get(meta, "title", "")))

\* <strategy>.get_group_key(memo_datetime, metadata)
GetGroupKey(strategy, dt, meta) ==
  CASE strategy = "weekly" -> WeeklyKey(dt)
    [] strategy = "monthly" -> Strftime(dt, "%Y-%m")
    [] strategy = "quarterly" -> QuarterKey(Civil(dt.days))
    [] strategy = "yearly" -> ToString(Civil(dt.days).year)
    [] strategy = "tag" -> TagKey(meta)
    [] strategy = "single" -> "single"

\* <strategy>.get_doc_title(group_key)
GetDocTitle(strategy, group_key) ==
  CASE strategy \in {"weekly", "monthly", "quarterly", "yearly"} ->
         group_key \o " Voice Memo Transcripts"
    [] strategy = "tag" ->
         IF StartsWith(group_key, "tag-")
           THEN "#" \o Tail_(group_key, 5) \o " Voice Memo Transcripts"
           ELSE "Untagged Voice Memo Transcripts"
    [] strategy = "single" -> "Voice Memo Transcripts"

(***************************************************************************)
(* Tab grouping strategies.  Ranges are dicts in insertion order: a        *)
(* sequence of [name, lo, hi].                                             *)
(***************************************************************************)
TabGroupings == {"daily", "weekly", "time-of-day", "duration", "none", "tag"}

Infinity == 1000000

DefaultTimeRanges ==
  << [name |-> "Morning", lo |-> 6, hi |-> 12],
     [name |-> "Afternoon", lo |-> 12, hi |-> 18],
     [name |-> "Evening", lo |-> 18, hi |-> 24],
     [name |-> "Night", lo |-> 0, hi |-> 6] >>

DefaultDurationRanges ==
  << [name |-> "Quick Notes", lo |-> 0, hi |-> 120],
     [name |-> "Standard", lo |-> 120, hi |-> 600],
     [name |-> "Extended", lo |-> 600, hi |-> Infinity] >>

\* A factory that falls through to no tab grouping.
AlwaysNoTabs(c) == "none"

\* The strategy _create_tab_grouping_strategy constructs.
TabStrategy(c) ==
  IF LowerName(c.tab_grouping, TabGroupings) \in TabGroupings
    THEN LowerName(c.tab_grouping, TabGroupings)
  ELSE "ValueError"

\* config.get("tab_time_ranges", {...}) and
\* config.get("tab_duration_ranges", {...})
TimeRanges(c) == Get(c, "tab_time_ranges", DefaultTimeRanges)

DurationRanges(c) == Get(c, "tab_duration_ranges", DefaultDurationRanges)

\* The key of range i; "unknown" for no range
RangeName(ranges, i) ==
  IF i = 0 THEN "unknown" ELSE LowerHyphen(ranges[i].name)

\* A match of ranges that are closed at both ends.
RangeKeyClosed(ranges, v) ==
  RangeName(ranges,
    LeastOr0({i \in 1..Len(ranges) : ranges[i].lo <= v /\ v <= ranges[i].hi}))

\* for name, (lo, hi) in ranges.items(): if lo <= v < hi: return key
RangeKey(ranges, v) ==
  RangeName(ranges,
    LeastOr0({i \in 1..Len(ranges) : ranges[i].lo <= v /\ v < ranges[i].hi}))

\* The first range whose key is tab_key; 0 when there is none.
RangeOfKey(ranges, tab_key) ==
  LeastOr0({i \in 1..Len(ranges) : LowerHyphen(ranges[i].name) = tab_key})

\* <strategy>.get_tab_key(memo_datetime, metadata)
GetTabKey(c, dt, meta) ==
  CASE TabStrategy(c) = "daily" -> Strftime(dt, "%Y-%m-%d")
    [] TabStrategy(c) = "weekly" -> WeeklyKey(dt)
    [] TabStrategy(c) = "time-of-day" -> RangeKey(TimeRanges(c), dt.hour)
    [] TabStrategy(c) = "duration" ->
         RangeKey(DurationRanges(c), Get(meta, "duration", 0))
    [] TabStrategy(c) = "none" -> "all"
    [] TabStrategy(c) = "tag" -> TagKey(meta)

\* TimeOfDayTabGrouping.get_tab_title for range i of ranges
TimeTitle(ranges, i) ==
  IF i = 0 THEN "Unknown Time"
  ELSE ranges[i].name \o " (" \o ToString(ranges[i].lo) \o ":00-"
         \o ToString(ranges[i].hi) \o ":00)"

\* DurationTabGrouping.get_tab_title for range i of ranges
DurationTitle(ranges, i) ==
  IF i = 0 THEN "Unknown Duration" ELSE ranges[i].name

\* <strategy>.get_tab_title(tab_key, memo_datetime)
GetTabTitle(c, tab_key, dt) ==
  CASE TabStrategy(c) = "daily" -> Strftime(dt, c.tab_date_format)
    [] TabStrategy(c) = "weekly" ->
         "Week of " \o Strftime(MondayOf(dt), "%B %d, %Y")
    [] TabStrategy(c) = "time-of-day" ->
         TimeTitle(TimeRanges(c), RangeOfKey(TimeRanges(c), tab_key))
    [] TabStrategy(c) = "duration" ->
         DurationTitle(DurationRanges(c),
                       RangeOfKey(DurationRanges(c), tab_key))
    [] TabStrategy(c) = "none" -> ""
    [] TabStrategy(c) = "tag" ->
         IF StartsWith(tab_key, "tag-") THEN "#" \o Tail_(tab_key, 5) ELSE "Untagged"

\* f"{doc_key}:{tab_key}" if tab_key else doc_key
JoinKey(doc_key, tab_key) ==
  IF tab_key # "" THEN doc_key \o ":" \o tab_key ELSE doc_key

\* GoogleDocsDestination.get_cache_key, on the metadata of the file
GoogleCacheKey(c, dt, meta) ==
  JoinKey(IF c.doc_id # "" THEN "single_doc"
          ELSE GetGroupKey(DocStrategy(c), dt, meta),
          IF TabStrategy(c) = "none" THEN "" ELSE GetTabKey(c, dt, meta))

\* ObsidianDestination.get_cache_key
ObsidianCacheKey(c, dt) ==
  IF c.organize_by = "weekly"
    THEN Strftime(MondayOf(dt), "%Y-%m-%d")
    ELSE Strftime(dt, "%Y-%m-%d")

(***************************************************************************)
(* The recordings folder.  Each audio file has a name (its hash stands     *)
(* for path + modification time, so the name identifies it), a recording   *)
(* time, the metadata ffprobe reports, a size class and whether ffprobe    *)
(* can decode it.                                                          *)
(***************************************************************************)
Pool ==
  << [name |-> "memo1", dt |-> [days |-> 20118, hour |-> 9],
      meta |-> ("title" :> "Ideas #project") @@ ("duration" :> 90),
      small |-> FALSE, corrupt |-> FALSE],
     [name |-> "memo2", dt |-> [days |-> 20118, hour |-> 14],
      meta |-> ("duration" :> 700),
      small |-> FALSE, corrupt |-> FALSE],
     [name |-> "memo3", dt |-> [days |-> 20119, hour |-> 8],
      meta |-> NoMeta,
      small |-> TRUE, corrupt |-> FALSE],
     [name |-> "memo4", dt |-> [days |-> 20120, hour |-> 20],
      meta |-> ("title" :> "Plan #work"),
      small |-> FALSE, corrupt |-> TRUE],
     [name |-> "memo5", dt |-> [days |-> 20122, hour |-> 7],
      meta |-> ("title" :> "Ideas #project") @@ ("duration" :> 130)
                 @@ ("device" :> "iPhone"),
      small |-> FALSE, corrupt |-> FALSE] >>

Names == {Pool[i].name : i \in 1..Len(Pool)}

PoolIndex(name) == CHOOSE i \in 1..Len(Pool) : Pool[i].name = name

Memo(name) == Pool[PoolIndex(name)]

\* extract_audio_metadata(filepath): what the ffprobe run reports, or the
\* empty dict when the run fails or exceeds its ten seconds.
ExtractAudioMetadata(name, probe_ok) ==
  IF probe_ok THEN Memo(name).meta ELSE NoMeta

\* JSON values as json.loads returns them: None, a list, a str, a dict.
JNull == [type |-> "null"]

JList == [type |-> "list"]

JStr(s) == [type |-> "str", val |-> s]

JDict(items) == [type |-> "dict", val |-> items]

\* What subprocess.run(["ffprobe", ...], timeout=10) does: it raises, or
\* returns the exit code and the standard output of the tool (parsed when it
\* is JSON; type "invalid" when json.loads rejects it).
RunRaises(exception) == [raised |-> exception, returncode |-> 0, stdout |-> JNull]

RunExits(code, out) == [raised |-> "", returncode |-> code, stdout |-> out]

\* The tags ffprobe prints for the file: title and encoder.
TagsOf(meta) ==
  (IF "title" \in DOMAIN meta THEN ("title" :> meta["title"]) ELSE << >>)
    @@ (IF "device" \in DOMAIN meta THEN ("encoder" :> meta["device"])
                                     ELSE << >>)

\* The output of ffprobe -print_format json -show_format for the file.
FfprobeOutput(name) ==
  JDict("format" :>
    JDict((IF "duration" \in DOMAIN Memo(name).meta
             THEN ("duration" :> JStr(ToString(Memo(name).meta["duration"])))
             ELSE << >>)
          @@ ("tags" :> JDict(TagsOf(Memo(name).meta)))))

\* What the run of ffprobe on the file can come to: the tool is missing, is
\* not executable, exceeds the timeout, exits with an error, or exits with 0
\* and prints the metadata, text that is not JSON, or JSON of another shape.
ProbeRuns(name) ==
  { RunRaises("FileNotFoundError"), RunRaises("PermissionError"),
    RunRaises("TimeoutExpired"),
    RunExits(1, [type |-> "invalid"]),
    RunExits(0, FfprobeOutput(name)),
    RunExits(0, [type |-> "invalid"]),
    RunExits(0, JDict(<< >>)),
    RunExits(0, JDict("format" :> JDict("duration" :> JStr("N/A")))),
    RunExits(0, JDict("format" :> JDict("tags" :> JDict("TIT2" :> name)))),
    RunExits(0, JList),
    RunExits(0, JDict("format" :> JNull)),
    RunExits(0, JDict("format" :> JDict("tags" :> JNull))) }

\* The exceptions the except clause of extract_audio_metadata names
\* (TimeoutExpired is a SubprocessError).
CaughtExceptions ==
  {"TimeoutExpired", "SubprocessError", "JSONDecodeError", "FileNotFoundError"}

\* The outcome of a call: the exception that leaves it, or its result.
Raised(exception) == [raised |-> exception, metadata |-> << >>]

Returned(metadata) == [raised |-> "", metadata |-> metadata]

\* metadata["title"] from the title tag, or else from TIT2
MetaTitle(tags) ==
  IF "title" \in DOMAIN tags THEN ("title" :> tags["title"])
  ELSE IF "TIT2" \in DOMAIN tags THEN ("title" :> tags["TIT2"])
  ELSE << >>

\* metadata["duration"] = float(format["duration"]); a ValueError or
\* TypeError of float() is passed over
MetaDuration(format) ==
  IF /\ "duration" \in DOMAIN format
     /\ format["duration"].type = "str"
     /\ IsDigits(format["duration"].val)
    THEN ("duration" :> ParseDigits(format["duration"].val))
    ELSE << >>

\* metadata["device"] from an encoder tag that names an iPhone or iPad
MetaDevice(tags) ==
  IF /\ "encoder" \in DOMAIN tags
     /\ Contains(tags["encoder"], "iPhone") \/ Contains(tags["encoder"], "iPad")
    THEN ("device" :> tags["encoder"])
    ELSE << >>

\* The metadata built from format and its tags.
MetadataFrom(format, tags) ==
  MetaTitle(tags) @@ MetaDuration(format) @@ MetaDevice(tags)

\* format_tags = data.get("format", {}).get("tags", {}) and the lookups in
\* it: data and format must be dicts (AttributeError on .get otherwise),
\* format_tags a container ("title" in None is a TypeError)
ExtractFromFormat(format) ==
  IF Get(format, "tags", JDict(<< >>)).type = "dict"
    THEN Returned(MetadataFrom(format, Get(format, "tags", JDict(<< >>)).val))
  ELSE IF Get(format, "tags", JDict(<< >>)).type = "list"
    THEN Returned(MetadataFrom(format, << >>))
  ELSE Raised("TypeError")

ExtractFromData(data) ==
  IF data.type # "dict" THEN Raised("AttributeError")
  ELSE IF Get(data.val, "format", JDict(<< >>)).type # "dict"
    THEN Raised("AttributeError")
  ELSE ExtractFromFormat(Get(data.val, "format", JDict(<< >>)).val)

\* What leaves the try block: an exception the except clause names is
\* turned into the empty dict, any other one propagates.
ExceptClause(outcome) ==
  IF outcome.raised \in CaughtExceptions THEN Returned(<< >>) ELSE outcome

\* extract_audio_metadata(filepath) for this run of ffprobe
ExtractAudioMetadataOf(probe) ==
  ExceptClause(
    IF probe.raised # "" THEN Raised(probe.raised)
    ELSE IF probe.returncode # 0 THEN Returned(<< >>)
    ELSE IF probe.stdout.type = "invalid" THEN Raised("JSONDecodeError")
    ELSE ExtractFromData(probe.stdout))

\* What the transcription backend returns for the file.
TranscriptOf(name) ==
  IF name = "memo2" THEN "memo_count: 7" ELSE "words of " \o name

\* memo_datetime.strftime("%Y-%m-%d %H:%M:%S")
TimestampStr(name) == Strftime(Memo(name).dt, "%Y-%m-%d %H:%M:%S")

(***************************************************************************)
(* State.                                                                  *)
(***************************************************************************)
VARIABLES
  cfg,            \* the configuration of this installation (fixed)
  recordings,     \* names of the audio files in the recordings folder
  processedFile,  \* processed.json: the set of hashes
  docsMapFile,    \* docs_by_week.json: [exists, json]
  remoteDocs,     \* the document service: doc id -> [title, tabs]
  vault,          \* the Obsidian folder: path -> sequence of lines
  pc,             \* where the process is
  run,            \* number of the current invocation
  orch,           \* locals of the orchestrator loop
  dest,           \* the destination object: docs_created, memo_count
  frame,          \* locals of the destination call in progress
  faults,         \* failing external calls and kills so far
  log,            \* history: effects on the stores
  calls           \* history: destination calls and their outcomes

vars == <<cfg, recordings, processedFile, docsMapFile, remoteDocs, vault,
          pc, run, orch, dest, frame, faults, log, calls>>

stores == <<processedFile, docsMapFile, remoteDocs, vault>>

(***************************************************************************)
(* The document service (Google Docs API).  A document is a sequence of    *)
(* tabs; a new document has one tab, "Tab 1", and a document's body is     *)
(* the body of its first tab.  A body is a string that ends with a newline *)
(* and whose characters have indices 1..Len: the last structural element   *)
(* has endIndex Len + 1.                                                   *)
(***************************************************************************)
FirstTabId == "t.0"

NewDoc(title) ==
  [title |-> title,
   tabs |-> << [tabId |-> FirstTabId, title |-> "Tab 1", body |-> "\n"] >>]

\* The id documents().create returns.
NextDocId(docs) == "doc" \o ToString(Cardinality(DOMAIN docs) + 1)

\* The id addDocumentTab returns.
NextTabId(doc) == "t." \o ToString(Len(doc.tabs))

\* Position of the tab with this id in the document; 0 when absent.
TabPos(doc, tab_id) ==
  LeastOr0({i \in 1..Len(doc.tabs) : doc.tabs[i].tabId = tab_id})

\* insertText at index: the text goes before the character at that index.
InsertAt(body, index, text) ==
  SubSeq(body, 1, index - 1) \o text \o SubSeq(body, index, Len(body))

BodyOf(docs, doc_id, tab_id) ==
  docs[doc_id].tabs[TabPos(docs[doc_id], tab_id)].body

\* Whether the service accepts insertText at this location.
InsertValid(docs, doc_id, tab_id, index) ==
  /\ doc_id \in DOMAIN docs
  /\ TabPos(docs[doc_id], tab_id) # 0
  /\ index >= 1
  /\ index <= Len(BodyOf(docs, doc_id, tab_id))

InsertText(docs, doc_id, tab_id, index, text) ==
  [docs EXCEPT ![doc_id].tabs[TabPos(docs[doc_id], tab_id)].body =
     InsertAt(@, index, text)]

(***************************************************************************)
(* GoogleDocsDestination: pure parts.                                      *)
(***************************************************************************)
\* A load that reads the canonical shape only.
LoadCanonicalOnly(file) ==
  IF file.exists /\ "groups" \in DOMAIN file.json THEN file.json
  ELSE [groups |-> <<>>]

\* The groups of docs_by_week.json as _get_or_create_doc loads them.
LoadDocsMap(file) ==
  IF ~file.exists THEN [groups |-> <<>>]
  ELSE IF "mode" \in DOMAIN file.json
    THEN IF file.json["mode"] = "weekly"
           THEN [groups |-> Get(file.json, "weekly", <<>>)]
         ELSE IF file.json["mode"] = "single"
           THEN [groups |-> ("single" :> Get(file.json, "single", "None"))]
         ELSE [groups |-> <<>>]
  ELSE IF "groups" \in DOMAIN file.json THEN file.json
  ELSE [groups |-> file.json]

\* A save in the format tagged with the mode, a section per mode.
SaveModeTagged(docs_map, group_key, doc_id) ==
  [exists |-> TRUE,
   json |-> IF group_key = "single"
              THEN ("mode" :> "single") @@ ("single" :> doc_id)
              ELSE ("mode" :> "weekly")
                     @@ ("weekly" :> ((group_key :> doc_id) @@ docs_map["groups"]))]

\* A save that writes the loaded map back without the new entry.
SaveWithoutEntry(docs_map, group_key, doc_id) ==
  [exists |-> TRUE, json |-> docs_map]

\* A save that writes the new entry alone and drops the loaded map.
SaveOnlyNewEntry(docs_map, group_key, doc_id) ==
  [exists |-> TRUE, json |-> [groups |-> (group_key :> doc_id)]]

\* A save that reads the file again and merges its entries with the map
\* that was loaded.
SaveMerged(docs_map, group_key, doc_id) ==
  [exists |-> TRUE,
   json |-> [groups |-> (group_key :> doc_id) @@ docs_map["groups"]
                          @@ LoadDocsMap(docsMapFile)["groups"]]]

\* docs_map["groups"][group_key] = doc_id; json.dump(docs_map): the file
\* written from the map that was loaded
SaveDocsMap(docs_map, group_key, doc_id) ==
  [exists |-> TRUE,
   json |-> [docs_map EXCEPT
               !["groups"] = (group_key :> doc_id) @@ docs_map["groups"]]]

\* The tabs _get_existing_tabs keeps: with an id and a title
TitledTabs(doc) ==
  {i \in 1..Len(doc.tabs) : doc.tabs[i].tabId # "" /\ doc.tabs[i].title # ""}

\* The last of the tabs ok with title t.
LastTitled(doc, ok, t) ==
  CHOOSE i \in ok :
    /\ doc.tabs[i].title = t
    /\ \A j \in ok : doc.tabs[j].title = t => j <= i

TabsByTitle(doc, ok) ==
  [t \in {doc.tabs[i].title : i \in ok} |-> doc.tabs[LastTitled(doc, ok, t)].tabId]

\* A listing that sees the first tab of the document only.
FirstTabOnly(doc) == TabsByTitle(doc, TitledTabs(doc) \cap {1})

\* _get_existing_tabs: title -> id over doc["tabs"] in order; a later tab
\* with the same title replaces an earlier one, untitled tabs are skipped
ExistingTabs(doc) == TabsByTitle(doc, TitledTabs(doc))

\* The start of the tab taken for its end.
TabStartIndex(docs, doc_id, tab_id) == 1

\* _get_tab_end_index
TabEndIndex(docs, doc_id, tab_id) ==
  IF TabPos(docs[doc_id], tab_id) # 0
    THEN (Len(BodyOf(docs, doc_id, tab_id)) + 1) - 1
    ELSE 1

Rule == "--"

\* The entry _append_to_tab and _append_to_doc_body insert.
TabEntry(memo_name, timestamp, transcript) ==
  "\n" \o Rule \o "\n" \o "N " \o memo_name \o "\n" \o "T " \o timestamp
    \o "\n" \o Rule \o "\n\n" \o transcript \o "\n\n"

\* The header _get_or_create_tab writes into a new tab.
TabHeader(tab_title) == "D " \o tab_title \o "\n\nVoice Memo Transcripts\n\n"

\* f"{doc_id}:{tab_id}", or doc_id when there is no tab
SessionId(doc_id, tab_id) ==
  IF tab_id # "" THEN doc_id \o ":" \o tab_id ELSE doc_id

\* append_transcript's parse of the session id: split(":", 1)
SplitAt(s, colon) ==
  IF colon # 0
    THEN [doc_id |-> SubSeq(s, 1, colon - 1), tab_id |-> Tail_(s, colon + 1)]
    ELSE [doc_id |-> s, tab_id |-> ""]

ParseSession(session_id) == SplitAt(session_id, IndexOf(session_id, ":"))

(***************************************************************************)
(* ObsidianDestination: pure parts.  A markdown file is the sequence of    *)
(* its lines (every write of the destination ends with a newline).         *)
(***************************************************************************)
\* The day number of January 1st of the year of this day.
JanFirst(days) ==
  CHOOSE n \in (days - 366)..days :
    Civil(n) = [year |-> Civil(days).year, month |-> 1, day |-> 1]

\* The ISO year and week of the week whose Thursday is this day.
IsoOfThursday(thursday) ==
  [year |-> Civil(thursday).year,
   week |-> ((thursday - JanFirst(thursday)) \div 7) + 1]

\* date.isocalendar(): the ISO year and week are those of the week's Thursday
IsoCalendar(days) == IsoOfThursday(days - ((days + 3) % 7) + 3)

\* The file prepare_for_memo resolves the memo to.
ObsidianPath(c, dt) ==
  IF c.organize_by = "weekly"
    THEN Strftime(MondayOf(dt), c.date_format) \o " Week.md"
    ELSE Strftime(dt, c.date_format) \o ".md"

\* The date _create_file_with_header is given.
ObsidianFileDate(c, dt) == IF c.organize_by = "weekly" THEN MondayOf(dt) ELSE dt

\* f"week: {year}-W{week_num:02d}"
WeekLine(iso) == "week: " \o ToString(iso.year) \o "-W" \o Pad2(iso.week)

\* _create_file_with_header: the frontmatter lines
Frontmatter(c, date, organize_by) ==
  IF c.include_frontmatter
    THEN << "---", "date: " \o Strftime(date, "%Y-%m-%d"),
            "type: voice-memo-transcript" >>
         \o (IF c.include_tags THEN << "tags: [voice-memo]" >> ELSE << >>)
         \o (IF organize_by = "weekly"
               THEN << WeekLine(IsoCalendar(MondayOf(date).days)) >>
               ELSE << >>)
         \o << "memo_count: 0", "---", "" >>
    ELSE << >>

\* _create_file_with_header: the lines of the new file
FileHeader(c, date, organize_by) ==
  Frontmatter(c, date, organize_by)
  \o << IF organize_by = "weekly"
          THEN "# Voice Memos - Week of " \o Strftime(MondayOf(date), "%B %d, %Y")
          ELSE "# Voice Memos - " \o Strftime(date, "%B %d, %Y"),
        "" >>

DurationText(hours, minutes, secs) ==
  IF hours > 0
    THEN ToString(hours) \o "h " \o ToString(minutes) \o "m " \o ToString(secs) \o "s"
  ELSE IF minutes > 0
    THEN ToString(minutes) \o "m " \o ToString(secs) \o "s"
  ELSE ToString(secs) \o "s"

\* format_duration
FormatDuration(seconds) ==
  DurationText(seconds \div 3600, (seconds % 3600) \div 60, seconds % 60)

RECURSIVE EscapeTitle(_)
\* title.replace("\\", "\\\\"): a backslash is doubled.  (The source also
\* escapes the backquote, a character TLA+ strings cannot hold.)
EscapeTitle(s) ==
  IF Len(s) = 0 THEN ""
  ELSE (IF CharAt(s, 1) = "\\" THEN "\\\\" ELSE CharAt(s, 1))
         \o EscapeTitle(Tail_(s, 2))

\* _format_transcript_entry: the lines of the entry
FormatEntry(memo_name, timestamp, transcript, metadata) ==
  << "---", "", "## " \o EscapeTitle(Get(metadata, "title", memo_name)), "",
     "**Recorded:** " \o timestamp >>
  \o (IF "duration" \in DOMAIN metadata
        THEN << "**Duration:** " \o FormatDuration(metadata["duration"]) >>
        ELSE << >>)
  \o (IF "device" \in DOMAIN metadata
        THEN << "**Device:** " \o metadata["device"] >>
        ELSE << >>)
  \o << "", transcript, "" >>

\* The metadata append_transcript formats the entry with.
EntryMeta(c, name) == IF c.include_metadata THEN Memo(name).meta ELSE NoMeta

ObsidianEntry(c, name) ==
  FormatEntry(name, TimestampStr(name), TranscriptOf(name), EntryMeta(c, name))

\* The entry of the call f: formatted with the metadata the call
\* extracted, when the call holds it.
EntryOfCall(c, f) ==
  IF "metadata" \in DOMAIN f
    THEN FormatEntry(f.memo, TimestampStr(f.memo), TranscriptOf(f.memo),
                     f.metadata)
    ELSE ObsidianEntry(c, f.memo)

\* A line that is exactly memo_count:\s*\d+
IsCountLine(line) ==
  /\ StartsWith(line, "memo_count:")
  /\ \E k \in 12..Len(line) :
       /\ \A i \in 12..(k - 1) : SubSeq(line, i, i) = " "
       /\ IsDigits(Tail_(line, k))

RECURSIVE Strip(_)
\* str.strip() of spaces, which int() applies to its argument
Strip(s) ==
  IF Len(s) > 0 /\ SubSeq(s, 1, 1) = " " THEN Strip(Tail_(s, 2))
  ELSE IF Len(s) > 0 /\ SubSeq(s, Len(s), Len(s)) = " "
    THEN Strip(SubSeq(s, 1, Len(s) - 1))
  ELSE s

\* int(text), 0 when it raises ValueError
IntOr0(text) == IF IsDigits(text) THEN ParseDigits(text) ELSE 0

\* The count on line first, after "memo_count: " up to the end of the line.
CountOnLine(lines, first) ==
  IF first = 0 THEN 0
  ELSE IntOr0(Strip(Tail_(lines[first],
                          IndexOf(lines[first], "memo_count: ") + 12)))

\* The count _update_memo_count reads from a file it has not counted yet:
\* int() of the text between the first "memo_count: " and the end of its
\* line, 0 when that is no number or the text does not occur
ReadCount(lines) ==
  CountOnLine(lines,
    LeastOr0({i \in 1..Len(lines) : Contains(lines[i], "memo_count: ")}))

\* The substitution once the count line is found: it needs a later line
\* that starts with "---"
SubAtCount(lines, new_count, count) ==
  IF count = 0 THEN lines
  ELSE IF {l \in 1..Len(lines) : l > count /\ StartsWith(lines[l], "---")} = {}
    THEN lines
  ELSE [lines EXCEPT ![count] = "memo_count: " \o ToString(new_count)]

\* The substitution from the opening line on: the first count line after it
SubAfterOpen(lines, new_count, open) ==
  IF open = 0 THEN lines
  ELSE SubAtCount(lines, new_count,
         LeastOr0({j \in 1..Len(lines) : j > open /\ IsCountLine(lines[j])}))

\* re.sub(r"(---\n(?:.*\n)*?)(memo_count:\s*\d+)(\n(?:.*\n)*?---)", ..., count=1):
\* the leftmost line ending in "---", the first count line after it, and
\* some later line starting with "---"; only the count line is rewritten
SubCount(lines, new_count) ==
  SubAfterOpen(lines, new_count,
    LeastOr0({i \in 1..Len(lines) : EndsWith(lines[i], "---")}))

\* A count that starts from zero for a file the destination has not counted.
CountWithoutFile(memo_count, path, lines) ==
  (IF path \in DOMAIN memo_count THEN memo_count[path] ELSE 0) + 1

\* _update_memo_count: the count the destination holds for the file after
\* the update
CountAfter(memo_count, path, lines) ==
  (IF path \in DOMAIN memo_count THEN memo_count[path] ELSE ReadCount(lines)) + 1

(***************************************************************************)
(* Configurations.  driver names the caller of the destination: "api" is   *)
(* any caller of prepare_for_memo and append_transcript, "run" is the      *)
(* orchestrator loop with its session cache, "script" is main() of         *)
(* transcribe_memos.py, which writes Google Docs with its own functions.   *)
(***************************************************************************)
GoogleConfig ==
  [driver |-> "api", dest |-> "google", doc_id |-> "", use_weekly_docs |-> "unset",
   doc_grouping |-> "weekly", tab_grouping |-> "daily",
   tab_date_format |-> "%B %d, %Y",
   organize_by |-> "daily", date_format |-> "%Y-%m-%d",
   include_frontmatter |-> TRUE, include_tags |-> TRUE, include_metadata |-> TRUE]

ObsidianConfig == [GoogleConfig EXCEPT !.dest = "obsidian"]

\* The document the user names in doc_id (google_doc_id) exists beforehand.
ConfiguredDoc == "cfgdoc"

DestinationConfigs ==
  { GoogleConfig,
    [GoogleConfig EXCEPT !.tab_date_format = "%Y-%m-%d %Hh"],
    [GoogleConfig EXCEPT !.doc_grouping = "tag", !.tab_grouping = "duration"],
    [GoogleConfig EXCEPT !.doc_grouping = "monthly", !.tab_grouping = "time-of-day"],
    [GoogleConfig EXCEPT !.doc_grouping = "yearly", !.tab_grouping = "none"],
    [GoogleConfig EXCEPT !.doc_id = ConfiguredDoc, !.tab_grouping = "tag"],
    ObsidianConfig,
    [ObsidianConfig EXCEPT !.organize_by = "weekly"],
    [ObsidianConfig EXCEPT !.date_format = "%Y-%m-%d %Hh",
                           !.include_frontmatter = FALSE] }

ScriptConfigs ==
  { [GoogleConfig EXCEPT !.driver = "script"],
    [GoogleConfig EXCEPT !.driver = "script", !.doc_id = ConfiguredDoc] }

Configs ==
  DestinationConfigs
    \cup {[c EXCEPT !.driver = "run"] : c \in DestinationConfigs}
    \cup ScriptConfigs

\* The audio files a caller of the destination passes.
ApiMemos == {"memo1", "memo2", "memo5"}

\* The names of S in the order of their recording times (Pool is in that
\* order): new_memos.sort(key=lambda x: x[2])
RECURSIVE SortedFrom(_, _)
SortedFrom(S, i) ==
  IF i > Len(Pool) THEN << >>
  ELSE (IF Pool[i].name \in S THEN << Pool[i].name >> ELSE << >>)
         \o SortedFrom(S, i + 1)

\* A discovery that returns the newest recording first.
NewestFirst(S) ==
  [i \in 1..Cardinality(S) |-> SortedFrom(S, 1)[Cardinality(S) + 1 - i]]

ByTimestamp(S) == SortedFrom(S, 1)

(***************************************************************************)
(* Initial state: nothing processed, an empty vault, the configured        *)
(* document, and a map file that is absent or was left by an earlier       *)
(* version (flat week -> id, or tagged with a mode) for documents that     *)
(* exist.                                                                  *)
(***************************************************************************)
EarlierDoc == "doc1"

NoFile == [exists |-> FALSE, json |-> << >>]

InitialMaps ==
  { NoFile, [exists |-> TRUE, json |-> ("2025-01-27" :> EarlierDoc)] }

\* The document an earlier version recorded for its single-document mode.
SingleDoc == "doc0"

\* Map files left by the version that tagged the file with its mode and
\* kept a section per mode.
ModeTaggedMaps ==
  { [exists |-> TRUE,
     json |-> ("mode" :> mode) @@ ("weekly" :> ("2025-01-27" :> EarlierDoc))
                @@ ("single" :> SingleDoc)] : mode \in {"weekly", "single"} }

\* The documents that exist when the map file is as given.
InitialDocs(file) ==
  IF ~file.exists THEN (ConfiguredDoc :> NewDoc("My notes"))
  ELSE IF file \in ModeTaggedMaps
    THEN (ConfiguredDoc :> NewDoc("My notes"))
           @@ (EarlierDoc :> NewDoc("2025-01-27 Voice Memo Transcripts"))
           @@ (SingleDoc :> NewDoc("Voice Memo Transcripts"))
  ELSE (ConfiguredDoc :> NewDoc("My notes"))
         @@ (EarlierDoc :> NewDoc("2025-01-27 Voice Memo Transcripts"))

Frame0 ==
  [op |-> "", memo |-> "", group_key |-> "", docs_map |-> [groups |-> << >>],
   doc_id |-> "", tab_title |-> "", tab_id |-> "", session |-> "",
   end_index |-> 0, again |-> FALSE, before |-> ""]

Orch0 ==
  [todo |-> << >>, processed |-> {}, cache |-> << >>, cur |-> "",
   key |-> "", session |-> "", transcript |-> "", failed_memos |-> << >>,
   success_count |-> 0]

Dest0 == [docs_created |-> << >>, memo_count |-> << >>, service |-> FALSE]

\* What has happened so far: the map file at the start, the documents and
\* files created, tabs added, headers and entries inserted, the memos found,
\* taken up and marked in each run, the failures of items, and the runs
\* that a kill or a fatal error ended.
Log0(file) ==
  [initial |-> file, creates |-> << >>, tabs |-> << >>, headers |-> << >>,
   inserts |-> << >>, failures |-> {}, crashed |-> {}, found |-> {},
   attempts |-> << >>, marked |-> {}, fatal |-> {}]

NoCall ==
  [op |-> "", memo |-> "", ok |-> TRUE, container |-> "", result |-> "",
   again |-> FALSE, before |-> ""]

Init ==
  /\ cfg \in Configs
  /\ recordings \in
       IF cfg.driver = "api" THEN {ApiMemos}
       ELSE {S \in SUBSET Names : Cardinality(S) \in 1..MaxMemos}
  /\ processedFile = {}
  /\ docsMapFile \in
       IF cfg.dest # "google" THEN {NoFile}
       ELSE IF cfg.driver # "api" THEN InitialMaps
       ELSE InitialMaps \cup ModeTaggedMaps
  /\ remoteDocs = InitialDocs(docsMapFile)
  /\ vault = << >>
  /\ pc = "idle"
  /\ run = 1
  /\ orch = Orch0
  /\ dest = Dest0
  /\ frame = Frame0
  /\ faults = 0
  /\ log = Log0(docsMapFile)
  /\ calls = [count |-> 0, sessions |-> {}, resolved |-> {}, done |-> << >>,
              last |-> NoCall, keys |-> {}, probes |-> 0]

(***************************************************************************)
(* Calls of the destination.  A call runs step by step (pc); frame holds   *)
(* its locals.  An external call made by a step either takes effect or     *)
(* fails without effect and raises; at most MaxFaults of them fail.        *)
(***************************************************************************)
MayFail == faults < MaxFaults

\* The body of the tab, or of the document when the session has no tab.
GoogleContent(doc_id, tab_id) ==
  IF doc_id \in DOMAIN remoteDocs /\ TabPos(remoteDocs[doc_id], tab_id) # 0
    THEN BodyOf(remoteDocs, doc_id, tab_id)
    ELSE ""

SessionContent(s) ==
  GoogleContent(s.doc_id, IF s.tab_id # "" THEN s.tab_id ELSE FirstTabId)

\* The content a session id designates: the body of the tab (or of the
\* document) for Google Docs, the lines of the file for Obsidian.
Content(session_id) ==
  IF cfg.dest = "obsidian"
    THEN IF session_id \in DOMAIN vault THEN vault[session_id] ELSE << >>
    ELSE SessionContent(ParseSession(session_id))

\* The cache key of the destination for an audio file.
CacheKey(name) ==
  IF cfg.dest = "obsidian"
    THEN ObsidianCacheKey(cfg, Memo(name).dt)
    ELSE GoogleCacheKey(cfg, Memo(name).dt, Memo(name).meta)

\* Where the caller continues when a call of the destination ends.
AfterCall(op, ok) ==
  IF cfg.driver = "api" THEN "idle"
  ELSE IF ~ok THEN "r_failed"
  ELSE IF op = "prepare" THEN "r_prepared"
  ELSE "r_appended"

\* The call in progress returns result (ok) or raises (~ok).
EndCall(ok, result) ==
  /\ pc' = AfterCall(frame.op, ok)
  /\ frame' = Frame0
  /\ calls' =
       [calls EXCEPT
          !.last = [op |-> frame.op, memo |-> frame.memo, ok |-> ok,
                    container |-> IF frame.op = "append" THEN frame.session
                                  ELSE result,
                    result |-> result, again |-> frame.again,
                    before |-> frame.before],
          !.sessions = IF ok /\ frame.op = "prepare" THEN @ \cup {result} ELSE @,
          !.resolved =
             IF ok /\ frame.op = "prepare"
               THEN @ \cup {[key |-> CacheKey(frame.memo), memo |-> frame.memo,
                             session |-> result, doc_id |-> frame.doc_id]}
               ELSE @,
          !.done =
             IF ok /\ frame.op = "append"
               THEN Append(@, [container |-> frame.session, memo |-> frame.memo])
               ELSE @]

Returns(result) == EndCall(TRUE, result)

\* Raises after an external call failed.
Fails ==
  /\ MayFail
  /\ faults' = faults + 1
  /\ EndCall(FALSE, "")

\* prepare_for_memo(memo_datetime, filepath) is entered
BeginPrepare(name) ==
  /\ frame' = [Frame0 EXCEPT
                 !.op = "prepare", !.memo = name,
                 !.again = \E r \in calls.resolved : r.memo = name,
                 !.before = [docs |-> remoteDocs, vault |-> vault,
                             map |-> docsMapFile,
                             memo_count |-> dest.memo_count]]
  /\ pc' = IF cfg.dest = "obsidian" THEN "o_prepare" ELSE "g_doc"

\* append_transcript(session_id, ...) is entered
BeginAppend(session_id, name) ==
  /\ frame' = [Frame0 EXCEPT !.op = "append", !.memo = name,
                             !.session = session_id,
                             !.before = Content(session_id)]
  /\ pc' = IF cfg.dest = "obsidian" THEN "o_append" ELSE "g_append"

(***************************************************************************)
(* The caller "api": any sequence of prepare_for_memo and                  *)
(* append_transcript calls, the latter with a session id that an earlier   *)
(* prepare_for_memo returned.                                              *)
(***************************************************************************)
\* The ValueError __init__ raises for this configuration: the document
\* strategy is constructed first, then the tab strategy; "" when both are
\* constructed
ConstructionError(c) ==
  IF DocStrategy(c) = "ValueError"
    THEN "Unknown doc_grouping: " \o Lower(c.doc_grouping)
  ELSE IF TabStrategy(c) = "ValueError"
    THEN "Unknown tab_grouping: " \o Lower(c.tab_grouping)
  ELSE ""

\* GoogleDocsDestination(config, data_dir): both strategies are constructed
D_Construct ==
  /\ pc = "new"
  /\ ConstructionError(cfg) = ""
  /\ pc' = "idle"
  /\ calls' = [calls EXCEPT !.last = [NoCall EXCEPT !.op = "construct"]]
  /\ UNCHANGED <<cfg, recordings, stores, run, orch, dest, frame, faults, log>>

\* GoogleDocsDestination(config, data_dir) raises ValueError
D_ConstructFails ==
  /\ pc = "new"
  /\ ConstructionError(cfg) # ""
  /\ pc' = "done"
  /\ calls' = [calls EXCEPT
                !.last = [NoCall EXCEPT !.op = "construct", !.ok = FALSE,
                                        !.result = ConstructionError(cfg)]]
  /\ log' = [log EXCEPT !.fatal = @ \cup {run}]
  /\ UNCHANGED <<cfg, recordings, stores, run, orch, dest, frame, faults>>

\* validate_config() and initialize() of the destination the run has
\* constructed: the credentials and the service, or the folder of the vault
D_Initialize ==
  /\ cfg.driver # "script"
  /\ pc = "idle"
  /\ ~dest.service
  /\ dest' = [dest EXCEPT !.service = TRUE]
  /\ UNCHANGED <<cfg, recordings, stores, pc, run, orch, frame, faults, log,
                 calls>>

\* validate_config() or initialize() raises: the run ends
D_InitializeFails ==
  /\ cfg.driver # "script"
  /\ pc = "idle"
  /\ ~dest.service
  /\ MayFail
  /\ faults' = faults + 1
  /\ log' = [log EXCEPT !.fatal = @ \cup {run}]
  /\ pc' = "done"
  /\ UNCHANGED <<cfg, recordings, stores, run, orch, dest, frame, calls>>

CallPrepare ==
  /\ cfg.driver = "api"
  /\ pc = "idle"
  /\ dest.service
  /\ calls.count < MaxCalls
  /\ \E name \in recordings : BeginPrepare(name)
  /\ calls' = [calls EXCEPT !.count = @ + 1, !.last = NoCall]
  /\ UNCHANGED <<cfg, recordings, stores, run, orch, dest, faults, log>>

CallAppend ==
  /\ cfg.driver = "api"
  /\ pc = "idle"
  /\ dest.service
  /\ calls.count < MaxCalls
  /\ \E session_id \in calls.sessions, name \in recordings :
       BeginAppend(session_id, name)
  /\ calls' = [calls EXCEPT !.count = @ + 1, !.last = NoCall]
  /\ UNCHANGED <<cfg, recordings, stores, run, orch, dest, faults, log>>

\* get_cache_key of the configured destination with this metadata.
GetCacheKey(name, metadata) ==
  IF cfg.dest = "obsidian"
    THEN ObsidianCacheKey(cfg, Memo(name).dt)
    ELSE GoogleCacheKey(cfg, Memo(name).dt, metadata)

\* get_cache_key returned key for the audio file; the Google Docs
\* destination ran ffprobe on the file for it.
KeyReturned(name, key) ==
  calls' = [calls EXCEPT
              !.count = @ + 1,
              !.keys = @ \cup {[memo |-> name, key |-> key]},
              !.probes = IF cfg.dest = "google" THEN @ + 1 ELSE @,
              !.last = [NoCall EXCEPT !.op = "cache_key", !.memo = name,
                                      !.result = key]]

\* get_cache_key(memo_datetime, filepath) as one step: the Google Docs
\* destination extracts the metadata of the file first, and the ffprobe run
\* may fail, which leaves the metadata empty.
CallCacheKey ==
  /\ cfg.driver = "api"
  /\ pc = "idle"
  /\ dest.service
  /\ calls.count < MaxCalls
  /\ \E name \in recordings, probe_ok \in BOOLEAN :
       /\ probe_ok \/ (cfg.dest = "google" /\ MayFail)
       /\ faults' = IF probe_ok THEN faults ELSE faults + 1
       /\ KeyReturned(name, GetCacheKey(name,
                                        ExtractAudioMetadata(name, probe_ok)))
  /\ UNCHANGED <<cfg, recordings, stores, pc, run, orch, dest, frame, log>>

(***************************************************************************)
(* GoogleDocsDestination.                                                  *)
(***************************************************************************)
\* if group_key in docs_map["groups"]
Known(docs_map, group_key) == group_key \in DOMAIN docs_map["groups"]

\* The group key of the audio file m under the configured strategy.
GroupKeyOf(m) == GetGroupKey(DocStrategy(cfg), m.dt, m.meta)

\* The lookup of _get_or_create_doc in the loaded map.
LookupDoc(group_key, docs_map) ==
  IF Known(docs_map, group_key)
    THEN /\ frame' = [frame EXCEPT !.group_key = group_key,
                                   !.doc_id = docs_map["groups"][group_key]]
         /\ pc' = "g_tab"
    ELSE /\ frame' = [frame EXCEPT !.group_key = group_key,
                                   !.docs_map = docs_map]
         /\ pc' = "g_create"

\* _get_or_create_doc up to the lookup: the configured document, the
\* document the map file names for the group, or a miss
G_GetOrCreateDoc ==
  /\ pc = "g_doc"
  /\ IF cfg.doc_id # ""
       THEN /\ frame' = [frame EXCEPT !.doc_id = cfg.doc_id]
            /\ pc' = "g_tab"
       ELSE LookupDoc(GroupKeyOf(Memo(frame.memo)), LoadDocsMap(docsMapFile))
  /\ UNCHANGED <<cfg, recordings, stores, run, orch, dest, faults, log, calls>>

\* The document with this id and title is created.
CreateDoc(doc_id, doc_title) ==
  /\ remoteDocs' = (doc_id :> NewDoc(doc_title)) @@ remoteDocs
  /\ frame' = [frame EXCEPT !.doc_id = doc_id]
  /\ log' = [log EXCEPT !.creates =
               Append(@, [key |-> frame.group_key, doc_id |-> doc_id,
                          run |-> run, persisted |-> FALSE,
                          known |-> Known(LoadDocsMap(docsMapFile),
                                          frame.group_key)])]

\* The creation of the document with this id, in the history.
CreatedAs(doc_id) ==
  CHOOSE i \in 1..Len(log.creates) : log.creates[i].doc_id = doc_id

\* documents().create(body={"title": doc_title}).execute()
G_CreateDoc ==
  /\ pc = "g_create"
  /\ CreateDoc(NextDocId(remoteDocs),
               GetDocTitle(DocStrategy(cfg), frame.group_key))
  /\ pc' = "g_persist"
  /\ UNCHANGED <<cfg, recordings, processedFile, docsMapFile, vault, run, orch,
                 dest, faults, calls>>

G_CreateDocFails ==
  /\ pc = "g_create"
  /\ Fails
  /\ UNCHANGED <<cfg, recordings, stores, run, orch, dest, log>>

\* docs_map["groups"][group_key] = doc_id, the map file is written and the
\* document is noted in docs_created
G_SaveMapping ==
  /\ pc = "g_persist"
  /\ docsMapFile' = SaveDocsMap(frame.docs_map, frame.group_key, frame.doc_id)
  /\ dest' = [dest EXCEPT !.docs_created =
                Append(@, << frame.doc_id,
                             GetDocTitle(DocStrategy(cfg), frame.group_key) >>)]
  /\ log' = [log EXCEPT !.creates[CreatedAs(frame.doc_id)].persisted = TRUE]
  /\ pc' = "g_tab"
  /\ UNCHANGED <<cfg, recordings, processedFile, remoteDocs, vault, run, orch,
                 frame, faults, calls>>

\* The tab title of the audio file m under the configured strategy.
TabTitleOf(m) == GetTabTitle(cfg, GetTabKey(cfg, m.dt, m.meta), m.dt)

\* The lookup of _get_or_create_tab among the listed tabs.
LookupTab(tab_title, existing_tabs) ==
  IF tab_title \in DOMAIN existing_tabs
    THEN Returns(SessionId(frame.doc_id, existing_tabs[tab_title]))
    ELSE /\ frame' = [frame EXCEPT !.tab_title = tab_title]
         /\ pc' = "g_addtab"
         /\ UNCHANGED calls

\* _get_or_create_tab up to the lookup: no tab at all, the listed tab with
\* the title, or a miss
G_GetOrCreateTab ==
  /\ pc = "g_tab"
  /\ TabStrategy(cfg) = "none" \/ frame.doc_id \in DOMAIN remoteDocs
  /\ IF TabStrategy(cfg) = "none"
       THEN Returns(SessionId(frame.doc_id, ""))
       ELSE LookupTab(TabTitleOf(Memo(frame.memo)),
                      ExistingTabs(remoteDocs[frame.doc_id]))
  /\ UNCHANGED <<cfg, recordings, stores, run, orch, dest, faults, log>>

\* documents().get(includeTabsContent=True) fails
G_ListTabsFails ==
  /\ pc = "g_tab"
  /\ TabStrategy(cfg) # "none"
  /\ Fails
  /\ UNCHANGED <<cfg, recordings, stores, run, orch, dest, log>>

\* The tab with this id is added to the document of the call.
AddTab(new_tab_id) ==
  /\ remoteDocs' =
       [remoteDocs EXCEPT ![frame.doc_id].tabs =
          Append(@, [tabId |-> new_tab_id, title |-> frame.tab_title,
                     body |-> "\n"])]
  /\ frame' = [frame EXCEPT !.tab_id = new_tab_id]
  /\ log' = [log EXCEPT !.tabs =
               Append(@, [doc_id |-> frame.doc_id, title |-> frame.tab_title,
                          tab_id |-> new_tab_id, run |-> run,
                          listed |-> frame.tab_title \in DOMAIN
                                       ExistingTabs(remoteDocs[frame.doc_id])])]

\* batchUpdate(addDocumentTab)
G_AddTab ==
  /\ pc = "g_addtab"
  /\ AddTab(NextTabId(remoteDocs[frame.doc_id]))
  /\ pc' = "g_header"
  /\ UNCHANGED <<cfg, recordings, processedFile, docsMapFile, vault, run, orch,
                 dest, faults, calls>>

G_AddTabFails ==
  /\ pc = "g_addtab"
  /\ Fails
  /\ UNCHANGED <<cfg, recordings, stores, run, orch, dest, log>>

\* batchUpdate(insertText of the header at index 1 of the new tab)
G_InsertHeader ==
  /\ pc = "g_header"
  /\ InsertValid(remoteDocs, frame.doc_id, frame.tab_id, 1)
  /\ remoteDocs' = InsertText(remoteDocs, frame.doc_id, frame.tab_id, 1,
                              TabHeader(frame.tab_title))
  /\ log' = [log EXCEPT !.headers =
               Append(@, SessionId(frame.doc_id, frame.tab_id))]
  /\ Returns(SessionId(frame.doc_id, frame.tab_id))
  /\ UNCHANGED <<cfg, recordings, processedFile, docsMapFile, vault, run, orch,
                 dest, faults>>

G_InsertHeaderFails ==
  /\ pc = "g_header"
  /\ Fails
  /\ UNCHANGED <<cfg, recordings, stores, run, orch, dest, log>>

\* The end index of the session s: _get_tab_end_index, or of the body
EndIndexOf(s) ==
  IF s.tab_id # ""
    THEN TabEndIndex(remoteDocs, s.doc_id, s.tab_id)
    ELSE (Len(BodyOf(remoteDocs, s.doc_id, FirstTabId)) + 1) - 1

ReadEnd(s) ==
  frame' = [frame EXCEPT !.doc_id = s.doc_id, !.tab_id = s.tab_id,
                         !.end_index = EndIndexOf(s)]

\* append_transcript up to the read of the end index (_get_tab_end_index,
\* or the end of the body when the session has no tab)
G_AppendTranscript ==
  /\ pc = "g_append"
  /\ ParseSession(frame.session).doc_id \in DOMAIN remoteDocs
  /\ ReadEnd(ParseSession(frame.session))
  /\ pc' = "g_insert"
  /\ UNCHANGED <<cfg, recordings, stores, run, orch, dest, faults, log, calls>>

G_ReadEndFails ==
  /\ pc = "g_append"
  /\ Fails
  /\ UNCHANGED <<cfg, recordings, stores, run, orch, dest, log>>

\* The entry is inserted at end_index of the tab.
InsertEntry(tab_id, content) ==
  /\ InsertValid(remoteDocs, frame.doc_id, tab_id, frame.end_index)
  /\ remoteDocs' = InsertText(remoteDocs, frame.doc_id, tab_id,
                              frame.end_index, content)
  /\ log' = [log EXCEPT !.inserts =
               Append(@, [container |-> frame.session, memo |-> frame.memo,
                          run |-> run])]

\* batchUpdate(insertText of the entry at end_index)
G_InsertEntry ==
  /\ pc = "g_insert"
  /\ InsertEntry(IF frame.tab_id # "" THEN frame.tab_id ELSE FirstTabId,
                 TabEntry(frame.memo, TimestampStr(frame.memo),
                          TranscriptOf(frame.memo)))
  /\ Returns("")
  /\ UNCHANGED <<cfg, recordings, processedFile, docsMapFile, vault, run, orch,
                 dest, faults>>

G_InsertEntryFails ==
  /\ pc = "g_insert"
  /\ Fails
  /\ UNCHANGED <<cfg, recordings, stores, run, orch, dest, log>>

\* documents().get of a document the service does not have raises
\* HttpError: the listing of the tabs, or the read of the end index, fails
G_NotFound ==
  /\ \/ /\ pc = "g_tab"
        /\ TabStrategy(cfg) # "none"
        /\ frame.doc_id \notin DOMAIN remoteDocs
     \/ /\ pc = "g_append"
        /\ ParseSession(frame.session).doc_id \notin DOMAIN remoteDocs
  /\ EndCall(FALSE, "")
  /\ UNCHANGED <<cfg, recordings, stores, run, orch, dest, faults, log>>

(***************************************************************************)
(* ObsidianDestination.                                                    *)
(***************************************************************************)
\* prepare_for_memo without the check that the file exists.
PrepareFileAnew(path, date, organize_by) ==
  /\ vault' = (path :> FileHeader(cfg, date, organize_by)) @@ vault
  /\ dest' = [dest EXCEPT !.memo_count = (path :> 0) @@ @]
  /\ log' = [log EXCEPT !.creates =
               Append(@, [key |-> path, doc_id |-> path, run |-> run,
                          persisted |-> TRUE,
                          known |-> path \in DOMAIN vault])]
  /\ Returns(path)

\* if not file_path.exists(): _create_file_with_header(...); return the path
PrepareFile(path, date, organize_by) ==
  /\ IF path \in DOMAIN vault
       THEN UNCHANGED <<vault, dest, log>>
       ELSE /\ vault' = (path :> FileHeader(cfg, date, organize_by)) @@ vault
            /\ dest' = [dest EXCEPT !.memo_count = (path :> 0) @@ @]
            /\ log' = [log EXCEPT !.creates =
                         Append(@, [key |-> path, doc_id |-> path, run |-> run,
                                    persisted |-> TRUE,
                                    known |-> path \in DOMAIN vault])]
  /\ Returns(path)

\* prepare_for_memo
O_PrepareForMemo ==
  /\ pc = "o_prepare"
  /\ PrepareFile(ObsidianPath(cfg, Memo(frame.memo).dt),
                 ObsidianFileDate(cfg, Memo(frame.memo).dt),
                 IF cfg.organize_by = "weekly" THEN "weekly" ELSE "daily")
  /\ UNCHANGED <<cfg, recordings, processedFile, docsMapFile, remoteDocs, run,
                 orch, faults>>

\* open(file_path, "w") of _create_file_with_header fails
O_CreateFileFails ==
  /\ pc = "o_prepare"
  /\ ObsidianPath(cfg, Memo(frame.memo).dt) \notin DOMAIN vault
  /\ Fails
  /\ UNCHANGED <<cfg, recordings, stores, run, orch, dest, log>>

\* append_transcript up to the write: open(file_path, "a") and write(content)
O_AppendTranscript ==
  /\ pc = "o_append"
  /\ vault' = (frame.session :> (Content(frame.session)
                                   \o EntryOfCall(cfg, frame))) @@ vault
  /\ log' = [log EXCEPT !.inserts =
               Append(@, [container |-> frame.session, memo |-> frame.memo,
                          run |-> run])]
  /\ pc' = "o_count"
  /\ UNCHANGED <<cfg, recordings, processedFile, docsMapFile, remoteDocs, run,
                 orch, dest, frame, faults, calls>>

O_AppendFails ==
  /\ pc = "o_append"
  /\ Fails
  /\ UNCHANGED <<cfg, recordings, stores, run, orch, dest, log>>

\* The file is rewritten with the new count, which the destination keeps.
WriteCount(path, new_count) ==
  /\ dest' = [dest EXCEPT !.memo_count = (path :> new_count) @@ @]
  /\ vault' = [vault EXCEPT ![path] = SubCount(@, new_count)]

\* _update_memo_count, and the return of append_transcript
O_UpdateMemoCount ==
  /\ pc = "o_count"
  /\ IF cfg.include_frontmatter
       THEN WriteCount(frame.session,
                       CountAfter(dest.memo_count, frame.session,
                                  vault[frame.session]))
       ELSE UNCHANGED <<vault, dest>>
  /\ Returns("")
  /\ UNCHANGED <<cfg, recordings, processedFile, docsMapFile, remoteDocs, run,
                 orch, faults, log>>

\* open(file_path, "r") of _update_memo_count fails: append_transcript raises
O_UpdateMemoCountFails ==
  /\ pc = "o_count"
  /\ cfg.include_frontmatter
  /\ Fails
  /\ UNCHANGED <<cfg, recordings, stores, run, orch, dest, log>>

\* open(file_path, "w") of _update_memo_count fails: the destination has
\* already incremented the count it keeps, and append_transcript raises
O_WriteCountFails ==
  /\ pc = "o_count"
  /\ cfg.include_frontmatter
  /\ dest' = [dest EXCEPT !.memo_count =
                (frame.session :> CountAfter(dest.memo_count, frame.session,
                                             vault[frame.session])) @@ @]
  /\ Fails
  /\ UNCHANGED <<cfg, recordings, stores, run, orch, log>>

Obsidian ==
  \/ O_PrepareForMemo \/ O_CreateFileFails
  \/ O_AppendTranscript \/ O_AppendFails
  \/ O_UpdateMemoCount \/ O_UpdateMemoCountFails \/ O_WriteCountFails

(***************************************************************************)
(* transcribe_memos.py: main() and the functions it calls.  The map file   *)
(* of the script is the flat dict week -> document id.                     *)
(***************************************************************************)
\* The entry append_to_doc inserts.
DocEntry(memo_name, timestamp, transcript) ==
  "\n\n" \o "==" \o "\n" \o "N " \o memo_name \o "\n" \o "T " \o timestamp
    \o "\n" \o "==" \o "\n\n" \o transcript \o "\n"

\* get_or_create_doc: docs_map = json.load(f) when the file exists
LoadFlatMap(file) == IF file.exists THEN file.json ELSE << >>

\* docs_map[monday_str] = doc_id; json.dump(docs_map)
SaveFlatMap(docs_map, monday_str, doc_id) ==
  [exists |-> TRUE, json |-> (monday_str :> doc_id) @@ docs_map]

\* An external call of the script fails and raises.
Raises ==
  /\ MayFail
  /\ faults' = faults + 1

\* The memo of the loop is taken up, marked, or has failed at a step, in
\* this run.
ThisMemo == [memo |-> orch.cur, run |-> run]

ThisFailure(step) == [memo |-> orch.cur, step |-> step, run |-> run]

\* A marking kept in memory, for a save at the end of the run.
MarkWithoutSave ==
  /\ orch' = [orch EXCEPT !.processed = @ \cup {orch.cur}, !.cur = "",
                          !.session = "", !.transcript = "",
                          !.success_count = @ + 1]
  /\ processedFile' = processedFile
  /\ log' = [log EXCEPT !.marked = @ \cup {ThisMemo}]
  /\ pc' = "s_item"

\* processed.add(file_hash); save_processed_memos(processed); continue
MarkProcessed ==
  /\ orch' = [orch EXCEPT !.processed = @ \cup {orch.cur}, !.cur = "",
                          !.session = "", !.transcript = "",
                          !.success_count = @ + 1]
  /\ processedFile' = orch.processed \cup {orch.cur}
  /\ log' = [log EXCEPT !.marked = @ \cup {ThisMemo}]
  /\ pc' = "s_item"

\* An except clause that ends the loop with the first failure.
ItemFailedAborts(step) ==
  /\ log' = [log EXCEPT !.failures = @ \cup {ThisFailure(step)}]
  /\ orch' = [orch EXCEPT !.cur = "", !.session = "", !.transcript = "",
                          !.failed_memos = Append(@, orch.cur)]
  /\ frame' = Frame0
  /\ pc' = "done"

\* The except clauses that leave the memo unmarked: failed_count += 1;
\* failed_memos.append(filename); continue
ItemFailed(step) ==
  /\ log' = [log EXCEPT !.failures = @ \cup {ThisFailure(step)}]
  /\ orch' = [orch EXCEPT !.cur = "", !.session = "", !.transcript = "",
                          !.failed_memos = Append(@, orch.cur)]
  /\ frame' = Frame0
  /\ pc' = "s_item"

\* The memos find_new_memos returns in this run.
Found(names) ==
  log' = [log EXCEPT !.found = @ \cup {[memo |-> n, run |-> run] : n \in names}]

\* A main() that looks for memos in the first run only.
S_MainOnce ==
  /\ cfg.driver = "script"
  /\ pc = "idle"
  /\ Found(IF run = 1 THEN recordings \ processedFile ELSE {})
  /\ IF run # 1 \/ recordings \ processedFile = {}
       THEN pc' = "done" /\ UNCHANGED orch
       ELSE /\ orch' = [Orch0 EXCEPT
                          !.todo = ByTimestamp(recordings \ processedFile)]
            /\ pc' = "s_connect"
  /\ UNCHANGED <<cfg, recordings, stores, run, dest, frame, faults, calls>>

\* A main() whose discovery does not read processed.json.
S_MainAll ==
  /\ cfg.driver = "script"
  /\ pc = "idle"
  /\ Found(recordings)
  /\ orch' = [Orch0 EXCEPT !.todo = ByTimestamp(recordings)]
  /\ pc' = "s_connect"
  /\ UNCHANGED <<cfg, recordings, stores, run, dest, frame, faults, calls>>

\* main() up to the connection: find_new_memos(); return when there is
\* nothing new
S_Main ==
  /\ cfg.driver = "script"
  /\ pc = "idle"
  /\ Found(recordings \ processedFile)
  /\ IF recordings \ processedFile = {}
       THEN pc' = "done" /\ UNCHANGED orch
       ELSE /\ orch' = [Orch0 EXCEPT
                          !.todo = ByTimestamp(recordings \ processedFile)]
            /\ pc' = "s_connect"
  /\ UNCHANGED <<cfg, recordings, stores, run, dest, frame, faults, calls>>

\* get_google_credentials() and build("docs", "v1", ...), then
\* get_processed_memos() and the counters of the loop
S_Connect ==
  /\ pc = "s_connect"
  /\ orch' = [orch EXCEPT !.processed = processedFile]
  /\ pc' = "s_item"
  /\ UNCHANGED <<cfg, recordings, stores, run, dest, frame, faults, log, calls>>

\* A connection failure that main() goes on after.
S_ConnectFailsIgnored ==
  /\ pc = "s_connect"
  /\ Raises
  /\ log' = [log EXCEPT !.fatal = @ \cup {run}]
  /\ orch' = [orch EXCEPT !.processed = processedFile]
  /\ pc' = "s_item"
  /\ UNCHANGED <<cfg, recordings, stores, run, dest, frame, calls>>

\* get_google_credentials() or build(...) raises: main() ends with the
\* exception
S_ConnectFails ==
  /\ pc = "s_connect"
  /\ Raises
  /\ log' = [log EXCEPT !.fatal = @ \cup {run}]
  /\ pc' = "done"
  /\ UNCHANGED <<cfg, recordings, stores, run, orch, dest, frame, calls>>

\* The loop is over.
S_Done ==
  /\ cfg.driver = "script"
  /\ pc = "s_item"
  /\ orch.todo = << >>
  /\ pc' = "done"
  /\ UNCHANGED <<cfg, recordings, stores, run, orch, dest, frame, faults, log,
                 calls>>

\* A skip of a small memo that counts it among the failed ones.
S_SkipSmallFailed ==
  /\ cfg.driver = "script"
  /\ pc = "s_item"
  /\ orch.todo # << >>
  /\ Memo(Head(orch.todo)).small
  /\ orch' = [orch EXCEPT !.todo = Tail(@),
                          !.processed = @ \cup {Head(orch.todo)},
                          !.failed_memos = Append(@, Head(orch.todo))]
  /\ processedFile' = orch.processed \cup {Head(orch.todo)}
  /\ log' = [log EXCEPT
               !.attempts = Append(@, [memo |-> Head(orch.todo), run |-> run]),
               !.marked = @ \cup {[memo |-> Head(orch.todo), run |-> run]}]
  /\ UNCHANGED <<cfg, recordings, docsMapFile, remoteDocs, vault, pc, run, dest,
                 frame, faults, calls>>

\* The next memo is smaller than 1000 bytes: marked and skipped.
S_SkipSmall ==
  /\ cfg.driver = "script"
  /\ pc = "s_item"
  /\ orch.todo # << >>
  /\ Memo(Head(orch.todo)).small
  /\ orch' = [orch EXCEPT !.todo = Tail(@),
                          !.processed = @ \cup {Head(orch.todo)}]
  /\ processedFile' = orch.processed \cup {Head(orch.todo)}
  /\ log' = [log EXCEPT
               !.attempts = Append(@, [memo |-> Head(orch.todo), run |-> run]),
               !.marked = @ \cup {[memo |-> Head(orch.todo), run |-> run]}]
  /\ UNCHANGED <<cfg, recordings, docsMapFile, remoteDocs, vault, pc, run, dest,
                 frame, faults, calls>>

\* A loop without doc_cache: get_or_create_doc for every memo.
TakeItemUncached(name, monday_str) ==
  /\ orch' = [orch EXCEPT !.todo = Tail(@), !.cur = name, !.key = monday_str]
  /\ pc' = "s_getdoc"

\* The next memo: its week is looked up in doc_cache.
TakeItem(name, monday_str) ==
  IF monday_str \in DOMAIN orch.cache
    THEN /\ orch' = [orch EXCEPT !.todo = Tail(@), !.cur = name,
                                 !.key = monday_str,
                                 !.session = orch.cache[monday_str]]
         /\ pc' = "s_transcribe"
    ELSE /\ orch' = [orch EXCEPT !.todo = Tail(@), !.cur = name,
                                 !.key = monday_str]
         /\ pc' = "s_getdoc"

S_NextMemo ==
  /\ cfg.driver = "script"
  /\ pc = "s_item"
  /\ orch.todo # << >>
  /\ ~Memo(Head(orch.todo)).small
  /\ TakeItem(Head(orch.todo), WeeklyKey(Memo(Head(orch.todo)).dt))
  /\ log' = [log EXCEPT
               !.attempts = Append(@, [memo |-> Head(orch.todo), run |-> run])]
  /\ UNCHANGED <<cfg, recordings, stores, run, dest, frame, faults, calls>>

\* get_or_create_doc returns doc_id, which main() notes in doc_cache.
UseDoc(doc_id) ==
  /\ orch' = [orch EXCEPT !.session = doc_id,
                          !.cache = (orch.key :> doc_id) @@ @]
  /\ frame' = Frame0
  /\ pc' = "s_transcribe"

\* The lookup of get_or_create_doc in the loaded map.
LookupWeek(docs_map) ==
  IF orch.key \in DOMAIN docs_map
    THEN UseDoc(docs_map[orch.key])
    ELSE /\ frame' = [frame EXCEPT !.group_key = orch.key,
                                   !.docs_map = docs_map]
         /\ pc' = "s_create"
         /\ UNCHANGED orch

\* get_or_create_doc up to the lookup
S_GetOrCreateDoc ==
  /\ pc = "s_getdoc"
  /\ IF cfg.doc_id # ""
       THEN UseDoc(cfg.doc_id)
       ELSE LookupWeek(LoadFlatMap(docsMapFile))
  /\ UNCHANGED <<cfg, recordings, stores, run, dest, faults, log, calls>>

\* documents().create(body={"title": doc_title}).execute()
S_CreateDoc ==
  /\ pc = "s_create"
  /\ CreateDoc(NextDocId(remoteDocs), frame.group_key \o " Voice Memo Transcripts")
  /\ pc' = "s_persist"
  /\ UNCHANGED <<cfg, recordings, processedFile, docsMapFile, vault, run, orch,
                 dest, faults, calls>>

S_CreateDocFails ==
  /\ pc = "s_create"
  /\ Raises
  /\ ItemFailed("create")
  /\ UNCHANGED <<cfg, recordings, stores, run, dest, calls>>

\* The mapping is saved and get_or_create_doc returns.
S_SaveMapping ==
  /\ pc = "s_persist"
  /\ docsMapFile' = SaveFlatMap(frame.docs_map, frame.group_key, frame.doc_id)
  /\ log' = [log EXCEPT !.creates[Len(log.creates)].persisted = TRUE]
  /\ UseDoc(frame.doc_id)
  /\ UNCHANGED <<cfg, recordings, processedFile, remoteDocs, vault, run, dest,
                 faults, calls>>

\* The memo is marked as soon as it is transcribed, before the append.
S_TranscribeMarked ==
  /\ pc = "s_transcribe"
  /\ ~Memo(orch.cur).corrupt
  /\ orch' = [orch EXCEPT !.transcript = TranscriptOf(orch.cur),
                          !.processed = @ \cup {orch.cur}]
  /\ processedFile' = orch.processed \cup {orch.cur}
  /\ log' = [log EXCEPT !.marked = @ \cup {ThisMemo}]
  /\ pc' = "s_append"
  /\ UNCHANGED <<cfg, recordings, docsMapFile, remoteDocs, vault, run, dest,
                 frame, faults, calls>>

\* transcribe(filepath): the transcript
S_Transcribe ==
  /\ pc = "s_transcribe"
  /\ ~Memo(orch.cur).corrupt
  /\ orch' = [orch EXCEPT !.transcript = TranscriptOf(orch.cur)]
  /\ pc' = "s_append"
  /\ UNCHANGED <<cfg, recordings, stores, run, dest, frame, faults, log, calls>>

\* A corrupted file handled as any other failure: left unmarked.
S_CorruptedUnmarked ==
  /\ pc = "s_transcribe"
  /\ Memo(orch.cur).corrupt
  /\ ItemFailed("corrupted")
  /\ UNCHANGED <<cfg, recordings, stores, run, dest, faults, calls>>

\* transcribe(filepath) raises ValueError("Corrupted audio file: ..."): the
\* memo is marked, the processed set saved, and the memo counted as failed
S_Corrupted ==
  /\ pc = "s_transcribe"
  /\ Memo(orch.cur).corrupt
  /\ orch' = [orch EXCEPT
                !.processed = @ \cup {orch.cur}, !.cur = "", !.session = "",
                !.transcript = "",
                !.failed_memos = Append(@, orch.cur \o " (corrupted)")]
  /\ processedFile' = orch.processed \cup {orch.cur}
  /\ log' = [log EXCEPT !.marked = @ \cup {ThisMemo},
                        !.failures = @ \cup {ThisFailure("corrupted")}]
  /\ pc' = "s_item"
  /\ UNCHANGED <<cfg, recordings, docsMapFile, remoteDocs, vault, run, dest,
                 frame, faults, calls>>

\* transcribe(filepath) raises anything else
S_TranscribeFails ==
  /\ pc = "s_transcribe"
  /\ ~Memo(orch.cur).corrupt
  /\ Raises
  /\ ItemFailed("transcribe")
  /\ UNCHANGED <<cfg, recordings, stores, run, dest, calls>>

\* append_to_doc: the entry is inserted before the last character of the body
S_AppendToDoc ==
  /\ pc = "s_append"
  /\ orch.session \in DOMAIN remoteDocs
  /\ remoteDocs' =
       InsertText(remoteDocs, orch.session, FirstTabId,
                  (Len(BodyOf(remoteDocs, orch.session, FirstTabId)) + 1) - 1,
                  DocEntry(orch.cur, TimestampStr(orch.cur), orch.transcript))
  /\ log' = [log EXCEPT !.inserts =
               Append(@, [container |-> orch.session, memo |-> orch.cur,
                          run |-> run])]
  /\ pc' = "s_mark"
  /\ UNCHANGED <<cfg, recordings, processedFile, docsMapFile, vault, run, orch,
                 dest, frame, faults, calls>>

\* An append failure handled as a success: the memo is marked.
S_AppendFailsMarked ==
  /\ pc = "s_append"
  /\ Raises
  /\ MarkProcessed
  /\ UNCHANGED <<cfg, recordings, docsMapFile, remoteDocs, vault, run, dest,
                 frame, calls>>

\* append_to_doc raises: the error is reported and the memo is left unmarked
S_AppendFails ==
  /\ pc = "s_append"
  /\ Raises
  /\ ItemFailed("append")
  /\ UNCHANGED <<cfg, recordings, stores, run, dest, calls>>

\* Transcription and append succeeded: the memo is marked.
S_MarkProcessed ==
  /\ pc = "s_mark"
  /\ MarkProcessed
  /\ UNCHANGED <<cfg, recordings, docsMapFile, remoteDocs, vault, run, dest,
                 frame, faults, calls>>

Script ==
  \/ S_Main \/ S_Connect \/ S_ConnectFails
  \/ S_Done \/ S_SkipSmall \/ S_NextMemo
  \/ S_GetOrCreateDoc \/ S_CreateDoc \/ S_CreateDocFails \/ S_SaveMapping
  \/ S_Transcribe \/ S_Corrupted \/ S_TranscribeFails
  \/ S_AppendToDoc \/ S_AppendFails \/ S_MarkProcessed

(***************************************************************************)
(* The orchestrator loop over a destination, with its session cache:       *)
(* for each unprocessed file in the order of the recording times, the      *)
(* cache key, prepare_for_memo when the key is new in this run,            *)
(* transcription, append_transcript, and the processed marker only after   *)
(* the append succeeded.  A file classified as corrupted is marked; any    *)
(* other failure leaves the file unmarked.                                 *)
(***************************************************************************)
R_Main ==
  /\ cfg.driver = "run"
  /\ pc = "idle"
  /\ dest.service
  /\ Found(recordings \ processedFile)
  /\ IF recordings \ processedFile = {}
       THEN pc' = "done" /\ UNCHANGED orch
       ELSE /\ orch' = [Orch0 EXCEPT
                          !.todo = ByTimestamp(recordings \ processedFile),
                          !.processed = processedFile]
            /\ pc' = "r_item"
  /\ UNCHANGED <<cfg, recordings, stores, run, dest, frame, faults, calls>>

R_Done ==
  /\ pc = "r_item"
  /\ orch.todo = << >>
  /\ pc' = "done"
  /\ UNCHANGED <<cfg, recordings, stores, run, orch, dest, frame, faults, log,
                 calls>>

\* The next file: its cache key is resolved from the session cache, or the
\* destination prepares a container for it.
ResolveItem(name, key) ==
  /\ orch' = [orch EXCEPT !.todo = Tail(@), !.cur = name, !.key = key,
                          !.session = IF key \in DOMAIN orch.cache
                                        THEN orch.cache[key] ELSE ""]
  /\ IF key \in DOMAIN orch.cache
       THEN pc' = "r_transcribe" /\ UNCHANGED <<frame, calls>>
       ELSE BeginPrepare(name) /\ calls' = [calls EXCEPT !.last = NoCall]

R_NextMemo ==
  /\ pc = "r_item"
  /\ orch.todo # << >>
  /\ ResolveItem(Head(orch.todo), CacheKey(Head(orch.todo)))
  /\ log' = [log EXCEPT
               !.attempts = Append(@, [memo |-> Head(orch.todo), run |-> run])]
  /\ UNCHANGED <<cfg, recordings, stores, run, dest, faults>>

\* prepare_for_memo returned: the session id is cached under the key.
R_Prepared ==
  /\ pc = "r_prepared"
  /\ orch' = [orch EXCEPT !.session = calls.last.result,
                          !.cache = (orch.key :> calls.last.result) @@ @]
  /\ pc' = "r_transcribe"
  /\ UNCHANGED <<cfg, recordings, stores, run, dest, frame, faults, log, calls>>

\* The transcript is there: append_transcript is called.
R_Transcribe ==
  /\ pc = "r_transcribe"
  /\ ~Memo(orch.cur).corrupt
  /\ orch' = [orch EXCEPT !.transcript = TranscriptOf(orch.cur)]
  /\ BeginAppend(orch.session, orch.cur)
  /\ calls' = [calls EXCEPT !.last = NoCall]
  /\ UNCHANGED <<cfg, recordings, stores, run, dest, faults, log>>

\* The failure is reported and the loop goes on with the next file.
NextItem(step) ==
  /\ log' = [log EXCEPT !.failures = @ \cup {ThisFailure(step)}]
  /\ orch' = [orch EXCEPT !.cur = "", !.key = "", !.session = "",
                          !.transcript = "",
                          !.failed_memos = Append(@, orch.cur)]
  /\ pc' = "r_item"

\* The file is marked in the processed record.
MarkItem ==
  /\ orch' = [orch EXCEPT !.processed = @ \cup {orch.cur}, !.cur = "",
                          !.key = "", !.session = "", !.transcript = ""]
  /\ processedFile' = orch.processed \cup {orch.cur}
  /\ log' = [log EXCEPT !.marked = @ \cup {ThisMemo}]
  /\ pc' = "r_item"

\* The file is classified as corrupted: marked, nothing appended, counted
\* as failed.
R_Corrupted ==
  /\ pc = "r_transcribe"
  /\ Memo(orch.cur).corrupt
  /\ orch' = [orch EXCEPT
                !.processed = @ \cup {orch.cur}, !.cur = "", !.key = "",
                !.session = "", !.transcript = "",
                !.failed_memos = Append(@, orch.cur \o " (corrupted)")]
  /\ processedFile' = orch.processed \cup {orch.cur}
  /\ log' = [log EXCEPT !.marked = @ \cup {ThisMemo},
                        !.failures = @ \cup {ThisFailure("corrupted")}]
  /\ pc' = "r_item"
  /\ UNCHANGED <<cfg, recordings, docsMapFile, remoteDocs, vault, run, dest,
                 frame, faults, calls>>

R_TranscribeFails ==
  /\ pc = "r_transcribe"
  /\ ~Memo(orch.cur).corrupt
  /\ Raises
  /\ NextItem("transcribe")
  /\ UNCHANGED <<cfg, recordings, stores, run, dest, frame, calls>>

\* append_transcript returned: the file is marked.
R_Appended ==
  /\ pc = "r_appended"
  /\ MarkItem
  /\ UNCHANGED <<cfg, recordings, docsMapFile, remoteDocs, vault, run, dest,
                 frame, faults, calls>>

\* A call of the destination raised: the file stays unmarked.
R_Failed ==
  /\ pc = "r_failed"
  /\ NextItem(calls.last.op)
  /\ UNCHANGED <<cfg, recordings, stores, run, dest, frame, faults, calls>>

Orchestrator ==
  \/ R_Main \/ R_Done \/ R_NextMemo \/ R_Prepared
  \/ R_Transcribe \/ R_Corrupted \/ R_TranscribeFails
  \/ R_Appended \/ R_Failed

(***************************************************************************)
(* Invocations.  A new invocation starts with a new destination object;    *)
(* the files and the documents stay.  The process can be killed between    *)
(* any two steps.                                                          *)
(***************************************************************************)
Stopped ==
  \/ pc \in {"done", "killed"}
  \/ cfg.driver = "api" /\ pc = "idle"

NewRun ==
  /\ Stopped
  /\ run < MaxRuns
  /\ run' = run + 1
  /\ pc' = "idle"
  /\ orch' = Orch0
  /\ dest' = Dest0
  /\ frame' = Frame0
  /\ calls' = [calls EXCEPT !.last = NoCall]
  /\ UNCHANGED <<cfg, recordings, stores, faults, log>>

Kill ==
  /\ pc \notin {"idle", "done", "killed"}
  /\ MayFail
  /\ faults' = faults + 1
  /\ pc' = "killed"
  /\ orch' = Orch0
  /\ dest' = Dest0
  /\ frame' = Frame0
  /\ calls' = [calls EXCEPT !.last = NoCall]
  /\ log' = [log EXCEPT !.crashed = @ \cup {run}]
  /\ UNCHANGED <<cfg, recordings, stores, run>>

Google ==
  \/ G_GetOrCreateDoc \/ G_CreateDoc \/ G_CreateDocFails \/ G_SaveMapping
  \/ G_GetOrCreateTab \/ G_ListTabsFails \/ G_AddTab \/ G_AddTabFails
  \/ G_InsertHeader \/ G_InsertHeaderFails
  \/ G_AppendTranscript \/ G_ReadEndFails \/ G_InsertEntry \/ G_InsertEntryFails

NextNoKill ==
  \/ D_Initialize \/ D_InitializeFails
  \/ CallPrepare \/ CallAppend
  \/ Google
  \/ Obsidian
  \/ Script
  \/ Orchestrator
  \/ NewRun

Next == NextNoKill \/ Kill

Spec == Init /\ [][Next]_vars

SpecNoKill == Init /\ [][NextNoKill]_vars

\* The destination called directly, get_cache_key among the calls, from no
\* map file.
KeyInit == Init /\ cfg.driver = "api" /\ ~docsMapFile.exists

KeyNext ==
  \/ D_Initialize \/ D_InitializeFails
  \/ CallCacheKey \/ CallPrepare \/ CallAppend
  \/ Google
  \/ Obsidian
  \/ NewRun

KeySpec == KeyInit /\ [][KeyNext]_vars

(***************************************************************************)
(* The script invoked again and again: a run that has begun takes its next *)
(* step unless it is killed, and after a run has ended the scheduler       *)
(* starts the next one.                                                    *)
(***************************************************************************)
RetryInit == Init /\ cfg.driver = "script"

RetryNext == Script \/ NewRun \/ Kill

RetrySpec ==
  RetryInit /\ [][RetryNext]_vars /\ WF_vars(Script) /\ WF_vars(NewRun)

(***************************************************************************)
(* append_transcript on a note that is already in the vault: a file of up  *)
(* to MaxLines lines written by the user, or the file the destination      *)
(* wrote while include_frontmatter was off.                                *)
(***************************************************************************)
MaxLines == 4

NoteLines == {"---", "memo_count: 3", "date: 2025-01-30", "notes"}

\* The daily note of memo1 and memo2.
NotePath == ObsidianPath(ObsidianConfig, Memo("memo1").dt)

\* The note as the destination left it with include_frontmatter off, after
\* the append of memo2.
NoteWithoutFrontmatter ==
  FileHeader([ObsidianConfig EXCEPT !.include_frontmatter = FALSE],
             Memo("memo2").dt, "daily")
    \o ObsidianEntry(ObsidianConfig, "memo2")

NoteFiles ==
  UNION {[1..n -> NoteLines] : n \in 0..MaxLines}
    \cup {NoteWithoutFrontmatter}

CountInit ==
  /\ cfg = ObsidianConfig
  /\ recordings = ApiMemos
  /\ processedFile = {}
  /\ docsMapFile = NoFile
  /\ remoteDocs = InitialDocs(NoFile)
  /\ vault \in {(NotePath :> file) : file \in NoteFiles}
  /\ pc = "idle"
  /\ run = 1
  /\ orch = Orch0
  /\ dest = [Dest0 EXCEPT !.service = TRUE]
  /\ frame = Frame0
  /\ faults = 0
  /\ log = Log0(NoFile)
  /\ calls = [count |-> 0, sessions |-> {NotePath}, resolved |-> {},
              done |-> << >>, last |-> NoCall, keys |-> {}, probes |-> 0]

CountNext ==
  \/ CallAppend
  \/ O_AppendTranscript \/ O_AppendFails
  \/ O_UpdateMemoCount \/ O_UpdateMemoCountFails \/ O_WriteCountFails

CountSpec == CountInit /\ [][CountNext]_vars

(***************************************************************************)
(* prepare_for_memo and append_transcript of the Google Docs destination   *)
(* under the values doc_id can be configured to: none, the id of a         *)
(* document, or the address of the document pasted whole.                  *)
(***************************************************************************)
PastedUrl == "https://d/cfgdoc"

SessionConfigs ==
  { [GoogleConfig EXCEPT !.doc_id = id, !.tab_grouping = tabs] :
      id \in {"", ConfiguredDoc, PastedUrl}, tabs \in {"daily", "none"} }

SessionInit ==
  /\ cfg \in SessionConfigs
  /\ recordings = ApiMemos
  /\ processedFile = {}
  /\ docsMapFile = NoFile
  /\ remoteDocs = InitialDocs(NoFile)
  /\ vault = << >>
  /\ pc = "idle"
  /\ run = 1
  /\ orch = Orch0
  /\ dest = Dest0
  /\ frame = Frame0
  /\ faults = 0
  /\ log = Log0(NoFile)
  /\ calls = [count |-> 0, sessions |-> {}, resolved |-> {}, done |-> << >>,
              last |-> NoCall, keys |-> {}, probes |-> 0]

SessionNext ==
  \/ D_Initialize \/ D_InitializeFails
  \/ CallCacheKey \/ CallPrepare \/ CallAppend
  \/ Google \/ G_NotFound
  \/ NewRun

SessionSpec == SessionInit /\ [][SessionNext]_vars

(***************************************************************************)
(* The Google Docs destination constructed from what the configuration     *)
(* file may hold: doc_id set or not, use_weekly_docs absent or false,      *)
(* grouping names in any case and names no strategy has.  A destination    *)
(* that was constructed is initialized and called.                         *)
(***************************************************************************)
FactoryConfigs ==
  { [GoogleConfig EXCEPT !.doc_id = id, !.use_weekly_docs = weekly,
                         !.doc_grouping = docs, !.tab_grouping = tabs] :
      id \in {"", ConfiguredDoc}, weekly \in {"unset", "false"},
      docs \in {"weekly", "Monthly", "bogus"},
      tabs \in {"daily", "None", "hourly"} }

FactoryInit ==
  /\ cfg \in FactoryConfigs
  /\ recordings = ApiMemos
  /\ processedFile = {}
  /\ docsMapFile \in InitialMaps
  /\ remoteDocs = InitialDocs(docsMapFile)
  /\ vault = << >>
  /\ pc = "new"
  /\ run = 1
  /\ orch = Orch0
  /\ dest = Dest0
  /\ frame = Frame0
  /\ faults = 0
  /\ log = Log0(docsMapFile)
  /\ calls = [count |-> 0, sessions |-> {}, resolved |-> {}, done |-> << >>,
              last |-> NoCall, keys |-> {}, probes |-> 0]

FactoryNext ==
  \/ D_Construct \/ D_ConstructFails
  \/ D_Initialize \/ D_InitializeFails
  \/ CallPrepare \/ CallAppend
  \/ Google

FactorySpec == FactoryInit /\ [][FactoryNext]_vars

(***************************************************************************)
(* The grouping strategies applied to a timestamp and the metadata of a    *)
(* file: days around a turn of the month, of the year and a leap day, all  *)
(* hours, durations at and around the limits of the ranges, and ranges     *)
(* as configured: the defaults, ranges that leave hours or durations out,  *)
(* ranges that overlap, and names that differ in case only.                *)
(***************************************************************************)
StrategyDays == (19779..19785) \cup (20085..20093) \cup (20114..20123)

StrategyHours == 0..23

StrategyMetadata ==
  {NoMeta, ("title" :> "Ideas #project")}
    \cup {("duration" :> d) : d \in {0, 90, 119, 120, 121, 599, 600, 700}}

OfficeHours ==
  << [name |-> "Work Day", lo |-> 9, hi |-> 17],
     [name |-> "Late Night", lo |-> 22, hi |-> 24] >>

OverlappingHours ==
  << [name |-> "Early", lo |-> 0, hi |-> 8],
     [name |-> "Morning", lo |-> 6, hi |-> 12],
     [name |-> "Day", lo |-> 6, hi |-> 24] >>

SameNameHours ==
  << [name |-> "Morning", lo |-> 6, hi |-> 12],
     [name |-> "morning", lo |-> 18, hi |-> 24] >>

TwoDurations ==
  << [name |-> "Quick Notes", lo |-> 0, hi |-> 120],
     [name |-> "Standard", lo |-> 120, hi |-> 600] >>

OverlappingDurations ==
  << [name |-> "Short", lo |-> 90, hi |-> 300],
     [name |-> "Quick Notes", lo |-> 0, hi |-> 120],
     [name |-> "Long", lo |-> 200, hi |-> Infinity] >>

StrategyConfigs ==
  { [GoogleConfig EXCEPT !.tab_grouping = "weekly"],
    [GoogleConfig EXCEPT !.tab_grouping = "time-of-day"],
    [GoogleConfig EXCEPT !.tab_grouping = "duration"] }
  \cup { ("tab_time_ranges" :> r)
            @@ [GoogleConfig EXCEPT !.tab_grouping = "time-of-day"] :
          r \in {OfficeHours, OverlappingHours, SameNameHours} }
  \cup { ("tab_duration_ranges" :> r)
            @@ [GoogleConfig EXCEPT !.tab_grouping = "duration"] :
          r \in {TwoDurations, OverlappingDurations} }

\* The arguments of the strategies: every day and hour for the strategies
\* that read the timestamp, every duration for the one that reads the
\* metadata.
StrategyInputs(c) ==
  { [op |-> "", dt |-> [days |-> d, hour |-> h], metadata |-> m,
     group_key |-> "", tab_key |-> "", tab_title |-> ""] :
      d \in IF c.tab_grouping = "duration" THEN {20118, 20121}
                                           ELSE StrategyDays,
      h \in IF c.tab_grouping = "duration" THEN {9} ELSE StrategyHours,
      m \in IF c.tab_grouping = "duration" THEN StrategyMetadata
                                           ELSE {NoMeta} }

StrategyInit ==
  /\ cfg \in StrategyConfigs
  /\ recordings = {}
  /\ processedFile = {}
  /\ docsMapFile = NoFile
  /\ remoteDocs = InitialDocs(NoFile)
  /\ vault = << >>
  /\ pc = "idle"
  /\ run = 1
  /\ orch = Orch0
  /\ dest = Dest0
  /\ frame \in StrategyInputs(cfg)
  /\ faults = 0
  /\ log = Log0(NoFile)
  /\ calls = [count |-> 0, sessions |-> {}, resolved |-> {}, done |-> << >>,
              last |-> NoCall, keys |-> {}, probes |-> 0]

\* doc_strategy.get_group_key, tab_strategy.get_tab_key and
\* tab_strategy.get_tab_title for the timestamp and the metadata given
StrategyKeys ==
  /\ pc = "idle"
  /\ frame.op = ""
  /\ frame' = [frame EXCEPT
                 !.op = "keys",
                 !.group_key = GetGroupKey(DocStrategy(cfg), frame.dt,
                                           frame.metadata),
                 !.tab_key = GetTabKey(cfg, frame.dt, frame.metadata),
                 !.tab_title = GetTabTitle(cfg,
                                 GetTabKey(cfg, frame.dt, frame.metadata),
                                 frame.dt)]
  /\ UNCHANGED <<cfg, recordings, stores, pc, run, orch, dest, faults, log,
                 calls>>

StrategySpec == StrategyInit /\ [][StrategyKeys]_vars

(***************************************************************************)
(* The destination called directly, with every outcome of the ffprobe run  *)
(* in the calls that extract the metadata of the audio file:               *)
(* get_cache_key and prepare_for_memo of the Google Docs destination, and  *)
(* append_transcript of the Obsidian destination when include_metadata is  *)
(* on.  The extraction is the first statement of each.                     *)
(***************************************************************************)
ProbeConfigs ==
  { GoogleConfig, ObsidianConfig,
    [ObsidianConfig EXCEPT !.include_metadata = FALSE] }

ProbeInit ==
  /\ cfg \in ProbeConfigs
  /\ recordings = ApiMemos
  /\ processedFile = {}
  /\ docsMapFile = NoFile
  /\ remoteDocs = InitialDocs(NoFile)
  /\ vault = << >>
  /\ pc = "idle"
  /\ run = 1
  /\ orch = Orch0
  /\ dest = [Dest0 EXCEPT !.service = TRUE]
  /\ frame = Frame0
  /\ faults = 0
  /\ log = Log0(NoFile)
  /\ calls = [count |-> 0, sessions |-> {}, resolved |-> {}, done |-> << >>,
              last |-> NoCall, keys |-> {}, probes |-> 0]

\* The call op of the configured destination runs extract_audio_metadata.
Extracts(op) ==
  \/ cfg.dest = "google" /\ op \in {"cache_key", "prepare"}
  \/ cfg.dest = "obsidian" /\ op = "append" /\ cfg.include_metadata

\* The metadata the call op has after its first statement.
MetadataOf(op, probe) ==
  IF Extracts(op) THEN ExtractAudioMetadataOf(probe) ELSE Returned(<< >>)

\* The exception of extract_audio_metadata leaves the call, which has done
\* nothing yet.
CallRaises(op, name, exception) ==
  /\ calls' = [calls EXCEPT
                !.count = @ + 1,
                !.last = [NoCall EXCEPT !.op = op, !.memo = name, !.ok = FALSE,
                                        !.result = exception]]
  /\ UNCHANGED <<pc, frame>>

\* get_cache_key(memo_datetime, filepath)
P_GetCacheKey ==
  /\ pc = "idle"
  /\ calls.count < MaxCalls
  /\ \E name \in recordings : \E probe \in ProbeRuns(name) :
       IF MetadataOf("cache_key", probe).raised # ""
         THEN CallRaises("cache_key", name,
                         MetadataOf("cache_key", probe).raised)
         ELSE /\ KeyReturned(name,
                   GetCacheKey(name, MetadataOf("cache_key", probe).metadata))
              /\ UNCHANGED <<pc, frame>>
  /\ UNCHANGED <<cfg, recordings, stores, run, orch, dest, faults, log>>

\* prepare_for_memo(memo_datetime, filepath) up to the metadata
P_PrepareForMemo ==
  /\ pc = "idle"
  /\ calls.count < MaxCalls
  /\ \E name \in recordings : \E probe \in ProbeRuns(name) :
       IF MetadataOf("prepare", probe).raised # ""
         THEN CallRaises("prepare", name, MetadataOf("prepare", probe).raised)
         ELSE /\ BeginPrepare(name)
              /\ calls' = [calls EXCEPT !.count = @ + 1, !.last = NoCall]
  /\ UNCHANGED <<cfg, recordings, stores, run, orch, dest, faults, log>>

\* append_transcript(session_id, ...) up to the metadata, which the
\* Obsidian destination formats the entry with
P_AppendTranscript ==
  /\ pc = "idle"
  /\ calls.count < MaxCalls
  /\ \E session_id \in calls.sessions, name \in recordings :
     \E probe \in ProbeRuns(name) :
       IF MetadataOf("append", probe).raised # ""
         THEN CallRaises("append", name, MetadataOf("append", probe).raised)
         ELSE /\ frame' =
                   (IF cfg.dest = "obsidian"
                      THEN ("metadata" :> MetadataOf("append", probe).metadata)
                      ELSE << >>)
                   @@ [Frame0 EXCEPT !.op = "append", !.memo = name,
                                     !.session = session_id,
                                     !.before = Content(session_id)]
              /\ pc' = IF cfg.dest = "obsidian" THEN "o_append" ELSE "g_append"
              /\ calls' = [calls EXCEPT !.count = @ + 1, !.last = NoCall]
  /\ UNCHANGED <<cfg, recordings, stores, run, orch, dest, faults, log>>

ProbeNext ==
  \/ P_GetCacheKey \/ P_PrepareForMemo \/ P_AppendTranscript
  \/ Google
  \/ Obsidian

ProbeSpec == ProbeInit /\ [][ProbeNext]_vars

(***************************************************************************)
(* Two invocations of the tool at the same time, on one map file and one   *)
(* document service.  One of them runs, the other is suspended with its    *)
(* position, the locals of its call and its destination object (held in    *)
(* orch, which the direct caller does not use); the scheduler switches     *)
(* between them at any step, MaxSwitches times at most.  run is the number *)
(* of the invocation that runs.  An invocation suspended inside a call     *)
(* makes the behaviour an interleaved one.                                 *)
(***************************************************************************)
MaxSwitches == 2

Suspended0 ==
  [pc |-> "idle", frame |-> Frame0, dest |-> [Dest0 EXCEPT !.service = TRUE]]

RaceInit ==
  /\ cfg = GoogleConfig
  /\ recordings = ApiMemos
  /\ processedFile = {}
  /\ docsMapFile \in InitialMaps
  /\ remoteDocs = InitialDocs(docsMapFile)
  /\ vault = << >>
  /\ pc = "idle"
  /\ run = 1
  /\ orch = [suspended |-> Suspended0, switches |-> 0, interleaved |-> FALSE]
  /\ dest = [Dest0 EXCEPT !.service = TRUE]
  /\ frame = Frame0
  /\ faults = 0
  /\ log = Log0(docsMapFile)
  /\ calls = [count |-> 0, sessions |-> {}, resolved |-> {}, done |-> << >>,
              last |-> NoCall, keys |-> {}, probes |-> 0]

\* The scheduler suspends the invocation that runs and resumes the other.
Switch ==
  /\ orch.switches < MaxSwitches
  /\ pc' = orch.suspended.pc
  /\ frame' = orch.suspended.frame
  /\ dest' = orch.suspended.dest
  /\ run' = 3 - run
  /\ orch' = [suspended |-> [pc |-> pc, frame |-> frame, dest |-> dest],
              switches |-> orch.switches + 1,
              interleaved |-> orch.interleaved \/ pc # "idle"]
  /\ calls' = [calls EXCEPT !.last = NoCall]
  /\ UNCHANGED <<cfg, recordings, stores, faults, log>>

RaceNext == CallPrepare \/ CallAppend \/ Google \/ Switch

RaceSpec == RaceInit /\ [][RaceNext]_vars

(***************************************************************************)
(* _get_or_create_doc on every shape of map file it reads: none, flat,     *)
(* canonical, and tagged with a mode, with the section of the mode or      *)
(* without it; under the weekly and the single document strategy.          *)
(***************************************************************************)
CanonicalMap ==
  [exists |-> TRUE, json |-> [groups |-> ("2025-01-27" :> EarlierDoc)]]

\* Files tagged with a mode whose section is absent.
SectionlessMaps ==
  { [exists |-> TRUE,
     json |-> ("mode" :> "single")
                @@ ("weekly" :> ("2025-01-27" :> EarlierDoc))],
    [exists |-> TRUE,
     json |-> ("mode" :> "weekly") @@ ("single" :> SingleDoc)] }

MapFiles == InitialMaps \cup ModeTaggedMaps \cup {CanonicalMap} \cup SectionlessMaps

\* The documents of the service: those the file names, and the one the
\* user may configure.
MapDocs(file) ==
  IF file \in SectionlessMaps
    THEN (ConfiguredDoc :> NewDoc("My notes"))
           @@ (EarlierDoc :> NewDoc("2025-01-27 Voice Memo Transcripts"))
           @@ (SingleDoc :> NewDoc("Voice Memo Transcripts"))
    ELSE InitialDocs(file)

MapConfigs ==
  { GoogleConfig,
    [GoogleConfig EXCEPT !.tab_grouping = "none"],
    [GoogleConfig EXCEPT !.doc_grouping = "single"],
    [GoogleConfig EXCEPT !.doc_grouping = "single", !.tab_grouping = "none"],
    [GoogleConfig EXCEPT !.doc_id = ConfiguredDoc] }

MapInit ==
  /\ cfg \in MapConfigs
  /\ recordings = ApiMemos
  /\ processedFile = {}
  /\ docsMapFile \in MapFiles
  /\ remoteDocs = MapDocs(docsMapFile)
  /\ vault = << >>
  /\ pc = "idle"
  /\ run = 1
  /\ orch = Orch0
  /\ dest = [Dest0 EXCEPT !.service = TRUE]
  /\ frame = Frame0
  /\ faults = 0
  /\ log = Log0(docsMapFile)
  /\ calls = [count |-> 0, sessions |-> {}, resolved |-> {}, done |-> << >>,
              last |-> NoCall, keys |-> {}, probes |-> 0]

MapNext == CallPrepare \/ CallAppend \/ Google \/ G_NotFound

MapSpec == MapInit /\ [][MapNext]_vars

(***************************************************************************)
(* The Obsidian destination with frontmatter, called directly over two     *)
(* runs: the destination of the second run is a new object, which holds no *)
(* memo counts and reads them from the files.                              *)
(***************************************************************************)
VaultConfigs ==
  { ObsidianConfig, [ObsidianConfig EXCEPT !.organize_by = "weekly"] }

VaultInit ==
  /\ cfg \in VaultConfigs
  /\ recordings = ApiMemos
  /\ processedFile = {}
  /\ docsMapFile = NoFile
  /\ remoteDocs = InitialDocs(NoFile)
  /\ vault = << >>
  /\ pc = "idle"
  /\ run = 1
  /\ orch = Orch0
  /\ dest = Dest0
  /\ frame = Frame0
  /\ faults = 0
  /\ log = Log0(NoFile)
  /\ calls = [count |-> 0, sessions |-> {}, resolved |-> {}, done |-> << >>,
              last |-> NoCall, keys |-> {}, probes |-> 0]

VaultNext ==
  \/ D_Initialize \/ D_InitializeFails
  \/ CallPrepare \/ CallAppend
  \/ Obsidian
  \/ NewRun

VaultSpec == VaultInit /\ [][VaultNext]_vars

(***************************************************************************)
(* split_audio_file(audio_path, max_size_mb): the file size is taken in    *)
(* tenths of a megabyte and the duration ffprobe reports in tenths of a    *)
(* second, so that duration * max_size_mb / file_size_mb is the quotient   *)
(* of two integers; start_time and chunk_duration are whole seconds, as in *)
(* the source.  The calls of ffprobe and ffmpeg may fail, which raises.    *)
(***************************************************************************)
MaxChunks == 31    \* chunks written before the model stops following the loop

SplitMaxSizes == {1, 24}

SplitFileSizes == {5, 10, 11, 25, 240, 241, 300, 1000}

SplitDurations == {0, 1, 9, 10, 15, 42, 100, 300}

SplitInputs ==
  { [op |-> "", file_size_mb |-> size, max_size_mb |-> max,
     duration_seconds |-> duration, chunk_duration |-> 0, start_time |-> 0,
     chunk_num |-> 0, chunks |-> 0] :
      size \in SplitFileSizes, max \in SplitMaxSizes,
      duration \in SplitDurations }

SplitInit ==
  /\ cfg = GoogleConfig
  /\ recordings = {}
  /\ processedFile = {}
  /\ docsMapFile = NoFile
  /\ remoteDocs = InitialDocs(NoFile)
  /\ vault = << >>
  /\ pc = "idle"
  /\ run = 1
  /\ orch = Orch0
  /\ dest = Dest0
  /\ frame \in SplitInputs
  /\ faults = 0
  /\ log = Log0(NoFile)
  /\ calls = [count |-> 0, sessions |-> {}, resolved |-> {}, done |-> << >>,
              last |-> NoCall, keys |-> {}, probes |-> 0]

\* A chunk length that is never below one second.
ChunkDurationAtLeastOne(duration_seconds, max_size_mb, file_size_mb) ==
  IF (duration_seconds * max_size_mb) \div file_size_mb < 1 THEN 1
  ELSE (duration_seconds * max_size_mb) \div file_size_mb

\* int((duration_seconds * max_size_mb) / file_size_mb)
ChunkDuration(duration_seconds, max_size_mb, file_size_mb) ==
  (duration_seconds * max_size_mb) \div file_size_mb

\* while start_time < duration_seconds
MoreChunks == frame.start_time * 10 < frame.duration_seconds

\* The size check: a file of at most max_size_mb is returned as it is.
Split_Begin ==
  /\ pc = "idle"
  /\ frame.op = ""
  /\ IF frame.file_size_mb <= frame.max_size_mb * 10
       THEN /\ frame' = [frame EXCEPT !.op = "split", !.chunks = 1]
            /\ pc' = "sp_done"
       ELSE /\ frame' = [frame EXCEPT !.op = "split"]
            /\ pc' = "sp_probe"
  /\ UNCHANGED <<cfg, recordings, stores, run, orch, dest, faults, log, calls>>

\* The duration is read from ffprobe and the chunk length computed.
Split_Probe ==
  /\ pc = "sp_probe"
  /\ frame' = [frame EXCEPT !.chunk_duration =
                 ChunkDuration(frame.duration_seconds, frame.max_size_mb,
                               frame.file_size_mb)]
  /\ pc' = "sp_loop"
  /\ UNCHANGED <<cfg, recordings, stores, run, orch, dest, faults, log, calls>>

\* ffprobe prints no number: float() raises ValueError
Split_ProbeFails ==
  /\ pc = "sp_probe"
  /\ Raises
  /\ pc' = "sp_raised"
  /\ UNCHANGED <<cfg, recordings, stores, run, orch, dest, frame, log, calls>>

\* One pass of the loop: ffmpeg writes the chunk, start_time moves on.
Split_Chunk ==
  /\ pc = "sp_loop"
  /\ MoreChunks
  /\ frame.chunk_num < MaxChunks
  /\ frame' = [frame EXCEPT !.chunks = @ + 1,
                            !.start_time = @ + frame.chunk_duration,
                            !.chunk_num = @ + 1]
  /\ UNCHANGED <<cfg, recordings, stores, pc, run, orch, dest, faults, log,
                 calls>>

\* ffmpeg exits with an error: check=True raises CalledProcessError
Split_ChunkFails ==
  /\ pc = "sp_loop"
  /\ MoreChunks
  /\ Raises
  /\ pc' = "sp_raised"
  /\ UNCHANGED <<cfg, recordings, stores, run, orch, dest, frame, log, calls>>

\* The loop condition is false: return chunks
Split_Return ==
  /\ pc = "sp_loop"
  /\ ~MoreChunks
  /\ pc' = "sp_done"
  /\ UNCHANGED <<cfg, recordings, stores, run, orch, dest, frame, faults, log,
                 calls>>

SplitSteps == Split_Begin \/ Split_Probe \/ Split_Chunk \/ Split_Return

SplitNext == SplitSteps \/ Split_ProbeFails \/ Split_ChunkFails

\* The function goes on while its calls succeed; nothing makes a call fail.
SplitSpec == SplitInit /\ [][SplitNext]_vars /\ WF_vars(SplitSteps)

(***************************************************************************)
(* Properties.                                                             *)
(***************************************************************************)
\* The audio file is neither undersized nor classified as corrupted.
Regular(name) == ~Memo(name).small /\ ~Memo(name).corrupt

\* The inserts of the entry of an audio file, as positions in log.inserts.
InsertsOf(name) == {i \in DOMAIN log.inserts : log.inserts[i].memo = name}

\* An append of the entry of the audio file returned normally.
AppendSucceeded(name) ==
  IF cfg.driver = "script"
    THEN InsertsOf(name) # {}
    ELSE \E i \in DOMAIN calls.done : calls.done[i].memo = name

\* The map file names a document for the group of the audio file.
MappingPersisted(name) ==
  Known(LoadDocsMap(docsMapFile), GroupKeyOf(Memo(name)))

MarkedOnlyIfAppended ==
  cfg.driver # "api" =>
    \A name \in processedFile : Regular(name) => AppendSucceeded(name)

\* C2 happens: the loop ended, the append of a transcribed memo failed and
\* the memo is not in the processed set, while another memo is.
AppendFailedUnmarked ==
  /\ pc = "done"
  /\ \E name \in recordings \ processedFile :
       /\ \E f \in log.failures : f.memo = name /\ f.step = "append"
       /\ ~AppendSucceeded(name)
  /\ \E name \in processedFile : Regular(name)

\* The tab the session s names exists and carries the title.
TabCarries(s, title) ==
  /\ s.doc_id \in DOMAIN remoteDocs
  /\ TabPos(remoteDocs[s.doc_id], s.tab_id) # 0
  /\ remoteDocs[s.doc_id].tabs[TabPos(remoteDocs[s.doc_id], s.tab_id)].title
       = title

\* C5: the create-tab operation is issued at most once for each title of a
\* document and never for a title the listing holds; a header is inserted
\* into created tabs only, once; prepare_for_memo returns the listed tab that
\* carries the title of the memo.
OneTabPerTitle ==
  /\ \A i, j \in DOMAIN log.tabs :
       (log.tabs[i].doc_id = log.tabs[j].doc_id
          /\ log.tabs[i].title = log.tabs[j].title) => i = j
  /\ \A i \in DOMAIN log.tabs : ~log.tabs[i].listed
  /\ \A k \in DOMAIN log.headers :
       /\ \E i \in DOMAIN log.tabs :
            SessionId(log.tabs[i].doc_id, log.tabs[i].tab_id) = log.headers[k]
       /\ \A l \in DOMAIN log.headers : log.headers[l] = log.headers[k] => l = k
  /\ (cfg.dest = "google" /\ TabStrategy(cfg) # "none"
        /\ calls.last.op = "prepare" /\ calls.last.ok) =>
       TabCarries(ParseSession(calls.last.result),
                  TabTitleOf(Memo(calls.last.memo)))

\* C5 happens: two audio files were prepared to the one tab that was created
\* for the first of them.
TabReused ==
  /\ Len(log.tabs) = 1
  /\ \E r1, r2 \in calls.resolved :
       /\ r1.memo # r2.memo
       /\ r1.session = r2.session
       /\ r1.session = SessionId(log.tabs[1].doc_id, log.tabs[1].tab_id)

\* C3 (original): the append and the new mapping entry precede the processed
\* marker, a run appends an item at most once, and no item is ever marked
\* while its content was not appended.
MarkedOnlyWithContent ==
  cfg.driver # "api" =>
    /\ \A name \in processedFile : InsertsOf(name) # {}
    /\ \A name \in processedFile :
         (cfg.dest = "google" /\ cfg.doc_id = "") => MappingPersisted(name)
    /\ \A name \in recordings : \A r \in 1..run :
         Cardinality({i \in InsertsOf(name) : log.inserts[i].run = r}) <= 1

\* The loop prepared the document of the audio file before it could mark it.
DocumentPrepared(name) == ~(cfg.driver = "script" /\ Memo(name).small)

\* C3 (amended): for an item that is neither undersized nor classified as
\* corrupted the append precedes the processed marker, for every item that
\* went through document resolution the mapping entry precedes the marker,
\* and a run appends an item at most once, so that a crash costs at most one
\* duplicate; undersized and corrupted items are marked with nothing appended.
RegularMarkedOnlyWithContent ==
  cfg.driver # "api" =>
    /\ \A name \in processedFile : Regular(name) => InsertsOf(name) # {}
    /\ \A name \in processedFile :
         (cfg.dest = "google" /\ cfg.doc_id = "" /\ DocumentPrepared(name))
           => MappingPersisted(name)
    /\ \A name \in recordings : \A r \in 1..run :
         Cardinality({i \in InsertsOf(name) : log.inserts[i].run = r}) <= 1

\* C3 happens: the first run of the script was killed after the append of a
\* memo, the second run appended the memo once more and marked it.
DuplicateAfterCrash ==
  /\ cfg.driver = "script"
  /\ 1 \in log.crashed
  /\ \E name \in processedFile :
       /\ Regular(name)
       /\ Cardinality(InsertsOf(name)) = 2

EntryKept(i) ==
  /\ Known(LoadDocsMap(docsMapFile), log.creates[i].key)
  /\ LoadDocsMap(docsMapFile)["groups"][log.creates[i].key]
       = log.creates[i].doc_id

CacheKeyAgreesWithResolution ==
  \A r1, r2 \in calls.resolved : r1.key = r2.key => r1.session = r2.session

\* Two regular audio files with one Weekly+Daily cache key are processed in
\* one run without faults, from no map file.
SameKeyPair ==
  /\ cfg.driver = "run" /\ cfg.dest = "google" /\ cfg.doc_id = ""
  /\ cfg.doc_grouping = "weekly" /\ cfg.tab_grouping = "daily"
  /\ Cardinality(recordings) = 2
  /\ \A a, b \in recordings : Regular(a) /\ CacheKey(a) = CacheKey(b)
  /\ ~log.initial.exists
  /\ run = 1 /\ faults = 0

\* C7: two items with the same Weekly+Daily cache key, processed in one run
\* from an empty map, cost exactly one create-document call, one create-tab
\* call and two transcript inserts.
OneDocOneTabTwoInserts ==
  (SameKeyPair /\ pc = "done") =>
    /\ Len(log.creates) = 1
    /\ Len(log.tabs) = 1
    /\ Len(log.inserts) = 2

\* C7 happens: the run over such a pair is over and both are marked.
SameKeyPairDone ==
  /\ SameKeyPair /\ pc = "done"
  /\ processedFile = recordings
  /\ Len(log.inserts) = 2

EntryOf(name) ==
  IF cfg.dest = "obsidian"
    THEN ObsidianEntry(cfg, name)
    ELSE TabEntry(name, TimestampStr(name), TranscriptOf(name))

\* The entries of the successful appends to the container, in call order.
RECURSIVE DoneEntries(_, _)
DoneEntries(container, i) ==
  IF i > Len(calls.done) THEN << >>
  ELSE (IF calls.done[i].container = container
          THEN << EntryOf(calls.done[i].memo) >> ELSE << >>)
         \o DoneEntries(container, i + 1)

\* The positions of text from which part occurs, at or after from.
HitsFrom(text, part, from) ==
  {i \in from..(Len(text) - Len(part) + 1) :
     SubSeq(text, i, i + Len(part) - 1) = part}

\* The entries occur in text one after the other, in order, from from on.
RECURSIVE InOrderFrom(_, _, _)
InOrderFrom(text, entries, from) ==
  IF entries = << >> THEN TRUE
  ELSE /\ HitsFrom(text, entries[1], from) # {}
       /\ InOrderFrom(text, Tail(entries),
                      Least(HitsFrom(text, entries[1], from)) + Len(entries[1]))

\* The lines of the frontmatter of a file, between its two rules.
FrontmatterLines(lines) ==
  IF Len(lines) > 0 /\ lines[1] = "---"
    THEN {i \in 2..Len(lines) : \A j \in 2..i : lines[j] # "---"}
    ELSE {}

\* new is old with text added at its end; of old only the memo count of the
\* frontmatter (Obsidian) may differ, and the final newline of the body
\* (Google Docs) stays last.
Extends(old, new, text) ==
  IF cfg.dest = "obsidian"
    THEN /\ Len(new) = Len(old) + Len(text)
         /\ \A i \in 1..Len(new) :
              \/ new[i] = (old \o text)[i]
              \/ /\ i \in FrontmatterLines(old)
                 /\ IsCountLine(old[i]) /\ IsCountLine(new[i])
    ELSE new = SubSeq(old, 1, Len(old) - 1) \o text
                 \o SubSeq(old, Len(old), Len(old))

\* C9: the content of a container holds the entries of all successful
\* appends to it in call order; an append that returns has put its entry
\* after all the content there was and has changed none of it (but the memo
\* count of the frontmatter).
AppendsKeptInOrder ==
  /\ \A i \in DOMAIN calls.done :
       InOrderFrom(Content(calls.done[i].container),
                   DoneEntries(calls.done[i].container, 1), 1)
  /\ (calls.last.op = "append" /\ calls.last.ok) =>
       Extends(calls.last.before, Content(calls.last.container),
               EntryOf(calls.last.memo))

\* C9 happens: two appends of different entries to one container returned.
TwoAppendsDone ==
  /\ calls.last.op = "append" /\ calls.last.ok
  /\ \E i, j \in DOMAIN calls.done :
       /\ i < j
       /\ calls.done[i].container = calls.done[j].container
       /\ calls.done[i].memo # calls.done[j].memo

\* C10: an append_transcript call that raised has left the content of the
\* container as it was before the call; one that returned has put the whole
\* entry into it.
AppendAllOrNothing ==
  calls.last.op = "append" =>
    IF calls.last.ok
      THEN InOrderFrom(Content(calls.last.container),
                       << EntryOf(calls.last.memo) >>, 1)
      ELSE Content(calls.last.container) = calls.last.before

\* The group -> document id entries the destination reads from the file.
GroupsOf(file) == LoadDocsMap(file)["groups"]

\* The creations whose mapping was written.
PersistedCreates == {i \in DOMAIN log.creates : log.creates[i].persisted}

\* The file holds the entries it started with and one entry per document
\* created, with the id the creation returned; only the creation whose save
\* is the next step is not in it.
MapExact ==
  cfg.dest = "google" =>
  /\ \A i \in DOMAIN log.creates :
       \/ /\ log.creates[i].persisted
          /\ Known(LoadDocsMap(docsMapFile), log.creates[i].key)
          /\ GroupsOf(docsMapFile)[log.creates[i].key] = log.creates[i].doc_id
       \/ /\ ~log.creates[i].persisted
          /\ i = Len(log.creates)
          /\ pc \in {"g_persist", "s_persist"}
  /\ Cardinality(DOMAIN GroupsOf(docsMapFile)) =
       Cardinality(DOMAIN GroupsOf(log.initial))
         + Cardinality(PersistedCreates)

\* No step changes or removes an entry of the file.
MapKeepsEntries ==
  \A k \in DOMAIN GroupsOf(docsMapFile) :
    /\ k \in DOMAIN GroupsOf(docsMapFile')
    /\ GroupsOf(docsMapFile')[k] = GroupsOf(docsMapFile)[k]

IsFlat(file) ==
  file.exists /\ "groups" \notin DOMAIN file.json /\ "mode" \notin DOMAIN file.json

\* C12: when the map file started in the legacy flat shape and the
\* destination saved it after creating a document, the file has the canonical
\* shape, a single "groups" object, which holds every prior entry with its
\* original id and the new entry; and no document is ever created for a key
\* the flat file held.
FlatMapUpgraded ==
  (cfg.dest = "google" /\ cfg.driver # "script" /\ IsFlat(log.initial)) =>
    /\ \A i \in DOMAIN log.creates :
         /\ log.creates[i].key \notin DOMAIN log.initial.json
         /\ log.creates[i].persisted =>
              /\ DOMAIN docsMapFile.json = {"groups"}
              /\ log.creates[i].key \in DOMAIN docsMapFile.json["groups"]
              /\ docsMapFile.json["groups"][log.creates[i].key]
                   = log.creates[i].doc_id
              /\ \A k \in DOMAIN log.initial.json :
                   /\ k \in DOMAIN docsMapFile.json["groups"]
                   /\ docsMapFile.json["groups"][k] = log.initial.json[k]
    /\ \A r \in calls.resolved :
         GroupKeyOf(Memo(r.memo)) \in DOMAIN log.initial.json =>
           ParseSession(r.session).doc_id
             = log.initial.json[GroupKeyOf(Memo(r.memo))]

\* The flat file was saved after a creation, and a memo of a week the flat
\* file held was resolved to the document recorded there.
FlatEntryResolvedAfterSave ==
  /\ cfg.dest = "google" /\ cfg.driver # "script" /\ IsFlat(log.initial)
  /\ PersistedCreates # {}
  /\ DOMAIN docsMapFile.json = {"groups"}
  /\ \E r \in calls.resolved : ParseSession(r.session).doc_id = EarlierDoc

\* C13: when the map file started in the mode-tagged shape and the
\* destination saved it after creating a document, every document id the
\* file recorded, in its "weekly" section and in its "single" section, is in
\* the groups of the saved file under its group key.
ModeTaggedUpgradeLossless ==
  (cfg.dest = "google" /\ log.initial \in ModeTaggedMaps
     /\ PersistedCreates # {}) =>
    /\ "groups" \in DOMAIN docsMapFile.json
    /\ \A k \in DOMAIN log.initial.json["weekly"] :
         /\ k \in DOMAIN docsMapFile.json["groups"]
         /\ docsMapFile.json["groups"][k] = log.initial.json["weekly"][k]
    /\ "single" \in DOMAIN docsMapFile.json["groups"]
    /\ docsMapFile.json["groups"]["single"] = log.initial.json["single"]

\* C14: get_cache_key is deterministic and pure: every two calls for one
\* audio file return the same key, whatever was called in between, and no
\* call runs a subprocess or reads a file.
CacheKeyPure ==
  /\ \A k1, k2 \in calls.keys : k1.memo = k2.memo => k1.key = k2.key
  /\ calls.probes = 0

\* The successful appends to the container, and the entries written to it.
SuccessfulAppends(path) ==
  {i \in DOMAIN calls.done : calls.done[i].container = path}

EntriesWritten(path) ==
  {i \in DOMAIN log.inserts : log.inserts[i].container = path}

\* The frontmatter prepare_for_memo wrote when it created the file.
CreatedFrontmatterOf(name) ==
  Frontmatter(cfg, ObsidianFileDate(cfg, Memo(name).dt),
              IF cfg.organize_by = "weekly" THEN "weekly" ELSE "daily")

CreatedFrontmatter(path) ==
  CreatedFrontmatterOf(
    CHOOSE name \in Names : ObsidianPath(cfg, Memo(name).dt) = path)

\* The file starts with the frontmatter it was created with, but for the
\* memo count, which is count.
FrontmatterWithCount(lines, created, count) ==
  /\ Len(lines) >= Len(created)
  /\ \A i \in 1..Len(created) :
       lines[i] = IF IsCountLine(created[i])
                    THEN "memo_count: " \o ToString(count)
                    ELSE created[i]

OnlyCountChanged(old, new) ==
  /\ Len(new) = Len(old)
  /\ \A i \in 1..Len(old) :
       new[i] # old[i] => i \in FrontmatterLines(old) /\ IsCountLine(old[i])

\* C16: the counter update after an append changes only the memo_count
\* value inside the frontmatter, between the opening "---" and the first
\* closing "---": whatever the file holds, every line outside the frontmatter
\* is left as it was.
CountUpdateKeepsBody ==
  [][pc = "o_count" =>
       \A path \in DOMAIN vault :
         /\ path \in DOMAIN vault'
         /\ OnlyCountChanged(vault[path], vault'[path])]_vars

\* The runs so far that went through their loop: not ended by a kill or a
\* fatal error, and, for the current run, at the end of main().
CompletedRuns ==
  {r \in 1..run : r \notin log.crashed /\ r \notin log.fatal
                    /\ (r = run => pc = "done")}

FoundIn(r) == {f.memo : f \in {g \in log.found : g.run = r}}

AttemptsOf(name, r) ==
  {i \in DOMAIN log.attempts : log.attempts[i] = [memo |-> name, run |-> r]}

FailedIn(name, r) == \E f \in log.failures : f.memo = name /\ f.run = r

AppendedIn(name, r) ==
  \E i \in DOMAIN log.inserts :
    log.inserts[i].memo = name /\ log.inserts[i].run = r

FailedMemos == {orch.failed_memos[i] : i \in DOMAIN orch.failed_memos}

\* The classifications as corrupted so far.
Corrupted == {f \in log.failures : f.step = "corrupted"}

\* C18: a memo classified as corrupted is marked processed and the
\* processed set saved in the same run, nothing is appended for it, the run
\* counts it as failed, and no later run finds it or takes it up again.
CorruptedMarkedOnce ==
  \A f \in Corrupted :
    /\ f.memo \in processedFile
    /\ [memo |-> f.memo, run |-> f.run] \in log.marked
    /\ InsertsOf(f.memo) = {}
    /\ (f.run = run /\ pc # "killed") =>
         (f.memo \o " (corrupted)") \in FailedMemos
    /\ \A r \in (f.run + 1)..run :
         /\ f.memo \notin FoundIn(r)
         /\ AttemptsOf(f.memo, r) = {}

\* The script classified a memo as corrupted in the first run, and the
\* second run went through its loop with another memo.
CorruptedLeftAloneLater ==
  /\ cfg.driver = "script"
  /\ run = 2 /\ pc = "done"
  /\ \E f \in Corrupted : f.run = 1
  /\ FoundIn(2) # {}
  /\ \E i \in DOMAIN log.attempts : log.attempts[i].run = 2

\* The failures that are no classification as corrupted.
RetriableFailures == {f \in log.failures : f.step # "corrupted"}

MarkedBefore(name, r) == \E m \in log.marked : m.memo = name /\ m.run < r

\* find_new_memos of run r has returned.
Scanned(r) == r < run \/ pc # "idle"

\* A failed memo is not marked by the run it failed in, every later run
\* finds it until a run has marked it, and no run after that takes it up.
RetrySafe ==
  /\ \A f \in RetriableFailures :
       /\ [memo |-> f.memo, run |-> f.run] \notin log.marked
       /\ f.memo \in processedFile => \E m \in log.marked :
                                        m.memo = f.memo /\ m.run > f.run
       /\ \A r \in (f.run + 1)..run :
            (Scanned(r) /\ ~MarkedBefore(f.memo, r)) => f.memo \in FoundIn(r)
  /\ \A m \in log.marked : \A r \in (m.run + 1)..run :
       AttemptsOf(m.memo, r) = {}

\* The memo has failed, nothing fails any more, and another run is to come.
RetryDue(name) ==
  /\ \E f \in RetriableFailures : f.memo = name
  /\ faults = MaxFaults
  /\ run < MaxRuns

\* C19: a memo whose processing failed for a reason other than corruption
\* stays out of the processed set and is found again by the next run; once
\* nothing fails any more and a further run comes, the memo is eventually
\* marked processed; and a marked memo is never taken up again.
RetryUntilProcessed ==
  /\ []RetrySafe
  /\ \A name \in Names : RetryDue(name) ~> (name \in processedFile)

\* A memo failed in the first run and the second run has marked it.
FailedThenProcessed ==
  /\ cfg.driver = "script"
  /\ \E f \in RetriableFailures :
       /\ f.run = 1
       /\ [memo |-> f.memo, run |-> 2] \in log.marked
       /\ f.memo \in processedFile

\* Nothing was done for an item in run r: no memo taken up, no document or
\* file created, no tab added, no entry inserted, nothing marked.
NothingDoneIn(r) ==
  /\ \A i \in DOMAIN log.attempts : log.attempts[i].run # r
  /\ \A i \in DOMAIN log.creates : log.creates[i].run # r
  /\ \A i \in DOMAIN log.tabs : log.tabs[i].run # r
  /\ \A i \in DOMAIN log.inserts : log.inserts[i].run # r
  /\ \A m \in log.marked : m.run # r

\* C20: a run in which the credentials or the service could not be set up
\* (the script) or validate_config/initialize of the destination failed has
\* taken up no item, created no document or file, appended nothing and marked
\* nothing; while it is the current run the stores are as the run found them.
FatalRunDoesNothing ==
  /\ \A r \in log.fatal : NothingDoneIn(r)
  /\ run \in log.fatal =>
       /\ pc = "done"
       /\ orch.processed = {} /\ orch.cur = ""
       /\ calls.last = NoCall
       /\ frame = Frame0

\* The second run of the script found memos to process and ended with a
\* connection failure, after a first run that had processed a memo.
FatalSecondRun ==
  /\ cfg.driver = "script"
  /\ run = 2 /\ 2 \in log.fatal
  /\ FoundIn(2) # {}
  /\ \E m \in log.marked : m.run = 1

\* The recording time of a is before that of b.
Earlier(a, b) ==
  \/ Memo(a).dt.days < Memo(b).dt.days
  \/ Memo(a).dt.days = Memo(b).dt.days /\ Memo(a).dt.hour < Memo(b).dt.hour

\* The last memo the loop has taken up.
LatestAttempt == log.attempts[Len(log.attempts)]

\* The memos are taken up, and their entries inserted, oldest first within
\* each run; the memo in hand is the one taken up last, the call in progress
\* is for it, and every memo still to do is later than it.
OldestFirst ==
  /\ \A i, j \in DOMAIN log.attempts :
       i < j /\ log.attempts[i].run = log.attempts[j].run
         => Earlier(log.attempts[i].memo, log.attempts[j].memo)
  /\ \A i, j \in DOMAIN log.inserts :
       i < j /\ log.inserts[i].run = log.inserts[j].run
         => Earlier(log.inserts[i].memo, log.inserts[j].memo)
  /\ orch.cur # "" =>
       /\ LatestAttempt = [memo |-> orch.cur, run |-> run]
       /\ frame.memo \in {"", orch.cur}
       /\ \A k \in DOMAIN orch.todo : Earlier(orch.cur, orch.todo[k])

\* A step creates a document, inserts an entry, marks a memo or reports a
\* failure only for the memo taken up last in this run.
ActsOnLatest ==
  /\ Len(log'.creates) > Len(log.creates) => orch.cur = LatestAttempt.memo
  /\ Len(log'.inserts) > Len(log.inserts) =>
       /\ log'.inserts[Len(log'.inserts)].memo = LatestAttempt.memo
       /\ log'.inserts[Len(log'.inserts)].run = LatestAttempt.run
  /\ \A e \in log'.marked \ log.marked :
       e = log'.attempts[Len(log'.attempts)]
  /\ \A e \in log'.failures \ log.failures :
       /\ e.memo = LatestAttempt.memo
       /\ e.run = LatestAttempt.run

\* C21: within one run the items are processed in ascending order of their
\* timestamps: of two discovered items the earlier one has all its actions
\* (resolution, transcription, append, marking) before any action on the
\* later one.
ProcessedInTimestampOrder ==
  /\ [](cfg.driver # "api" => OldestFirst)
  /\ [][cfg.driver # "api" => ActsOnLatest]_vars

\* Two memos had their entries inserted in one run.
TwoInsertedInOneRun ==
  /\ cfg.driver # "api"
  /\ \E i, j \in DOMAIN log.inserts :
       /\ i < j
       /\ log.inserts[i].run = log.inserts[j].run
       /\ log.inserts[i].memo # log.inserts[j].memo
  /\ \E e \in log.marked : e.run = run /\ e.memo = log.inserts[Len(log.inserts)].memo

\* In every run that has looked for memos, find_new_memos returned the
\* recordings that no earlier run had marked, and processed.json holds the
\* memos marked so far.
FoundAreTheUnmarked ==
  /\ processedFile = {m.memo : m \in log.marked}
  /\ \A r \in 1..run :
       Scanned(r) => FoundIn(r) = {n \in recordings : ~MarkedBefore(n, r)}

\* The step in which main() looks for memos returns the recordings that are
\* not in processed.json.
ScanReadsProcessed ==
  (pc = "idle" /\ pc' # "idle") =>
    {f.memo : f \in {g \in log'.found : g.run = run}} = recordings \ processedFile

\* C22: find_new_memos returns exactly the audio files whose hash is not in
\* the persisted processed set: a memo marked in an earlier run is never
\* returned again, and every unmarked memo is returned.
FindNewMemosExact ==
  /\ [](cfg.driver = "script" => FoundAreTheUnmarked)
  /\ [][cfg.driver = "script" => ScanReadsProcessed]_vars

\* The second run found a memo again that the first run had left unmarked,
\* and did not find the one the first run had marked.
SecondScanSkipsMarked ==
  /\ cfg.driver = "script"
  /\ run = 2
  /\ \E a, b \in recordings :
       /\ [memo |-> a, run |-> 1] \in log.marked
       /\ a \notin FoundIn(2)
       /\ [memo |-> b, run |-> 1] \in log.found
       /\ b \in FoundIn(2)

\* The tab a parsed session id designates: the first tab holds the body of
\* the document.
TargetTab(s) == IF s.tab_id # "" THEN s.tab_id ELSE FirstTabId

\* The tab of document d with this id has this title.
TabTitled(d, tab_id, title) ==
  /\ d \in DOMAIN remoteDocs
  /\ \E i \in 1..Len(remoteDocs[d].tabs) :
       /\ remoteDocs[d].tabs[i].tabId = tab_id
       /\ remoteDocs[d].tabs[i].title = title

\* The session id prepare_for_memo returned for r.memo parses, in
\* append_transcript, to the document the call resolved and to the tab it
\* resolved: no tab without tab grouping, else the tab of that document with
\* the tab title of the memo.
ParsesToResolved(r) ==
  /\ ParseSession(r.session).doc_id = r.doc_id
  /\ IF TabStrategy(cfg) = "none"
       THEN ParseSession(r.session).tab_id = ""
       ELSE TabTitled(r.doc_id, ParseSession(r.session).tab_id,
                      TabTitleOf(Memo(r.memo)))

\* A step of append_transcript creates no document and no tab, leaves the
\* map file alone, and changes no body but that of the tab its session id
\* parses to.
AppendOnlyWrites ==
  frame.op = "append" =>
    /\ log'.creates = log.creates
    /\ log'.tabs = log.tabs
    /\ docsMapFile' = docsMapFile
    /\ DOMAIN remoteDocs' = DOMAIN remoteDocs
    /\ \A d \in DOMAIN remoteDocs :
         /\ Len(remoteDocs'[d].tabs) = Len(remoteDocs[d].tabs)
         /\ \A i \in 1..Len(remoteDocs[d].tabs) :
              remoteDocs'[d].tabs[i] # remoteDocs[d].tabs[i] =>
                /\ d = ParseSession(frame.session).doc_id
                /\ remoteDocs[d].tabs[i].tabId =
                     TargetTab(ParseSession(frame.session))

\* C23: every session id prepare_for_memo returns ("doc_id:tab_id", or
\* "doc_id" without tab grouping) leads append_transcript to exactly the
\* document and tab (or document body) that prepare_for_memo resolved, for
\* every document id the service or the configuration supplies, and
\* append_transcript resolves nothing anew.
SessionRoundTrip ==
  /\ [](cfg.dest = "google" => \A r \in calls.resolved : ParsesToResolved(r))
  /\ [][cfg.dest = "google" => AppendOnlyWrites]_vars

\* The constructor has raised.
ConstructionFailed == calls.last.op = "construct" /\ ~calls.last.ok

\* The constructor has returned the destination.
Constructed == pc # "new" /\ ~ConstructionFailed

\* No strategy has the name, in whatever case it is written.
Unrecognized(name, known) == Lower(name) \notin known

\* C24 as stated: in every configuration an unrecognized doc_grouping or
\* tab_grouping makes the constructor fail with an error that names the
\* value; no configuration gets a strategy in place of an unrecognized name.
UnknownGroupingAlwaysFails ==
  (/\ pc # "new"
   /\ \/ Unrecognized(cfg.doc_grouping, DocGroupings)
      \/ Unrecognized(cfg.tab_grouping, TabGroupings))
    => /\ ConstructionFailed
       /\ \/ /\ Unrecognized(cfg.doc_grouping, DocGroupings)
             /\ Contains(calls.last.result, Lower(cfg.doc_grouping))
          \/ /\ Unrecognized(cfg.tab_grouping, TabGroupings)
             /\ Contains(calls.last.result, Lower(cfg.tab_grouping))

\* The constructor looks at doc_grouping: no doc_id is configured and
\* use_weekly_docs is not false.
DocGroupingInspected(c) == c.doc_id = "" /\ c.use_weekly_docs # "false"

\* C24, amended: an unrecognized tab_grouping always makes the constructor
\* fail, and an unrecognized doc_grouping does when the constructor looks at
\* it, with a ValueError that names the value in lower case (that of
\* doc_grouping first); when doc_id is configured or use_weekly_docs is false
\* doc_grouping is not looked at and the Single strategy is constructed
\* whatever its value; a constructed destination has the strategies named.
UnknownGroupingFailsUnlessForced ==
  pc # "new" =>
    /\ ConstructionFailed <=>
         \/ /\ DocGroupingInspected(cfg)
            /\ Unrecognized(cfg.doc_grouping, DocGroupings)
         \/ Unrecognized(cfg.tab_grouping, TabGroupings)
    /\ ConstructionFailed =>
         calls.last.result =
           IF /\ DocGroupingInspected(cfg)
              /\ Unrecognized(cfg.doc_grouping, DocGroupings)
             THEN "Unknown doc_grouping: " \o Lower(cfg.doc_grouping)
             ELSE "Unknown tab_grouping: " \o Lower(cfg.tab_grouping)
    /\ Constructed =>
         /\ TabStrategy(cfg) = Lower(cfg.tab_grouping)
         /\ DocStrategy(cfg) = IF DocGroupingInspected(cfg)
                                 THEN Lower(cfg.doc_grouping) ELSE "single"

\* The constructor rejected a doc_grouping no strategy has.
UnknownDocGroupingRejected ==
  /\ ConstructionFailed
  /\ cfg.doc_grouping = "bogus"
  /\ DocGroupingInspected(cfg)
  /\ calls.last.result = "Unknown doc_grouping: bogus"

\* With doc_id configured every prepare_for_memo resolved the configured
\* document, no document was created and the map file is as it was found.
ConfiguredDocAlone ==
  /\ \A r \in calls.resolved : r.doc_id = cfg.doc_id
  /\ log.creates = << >>
  /\ docsMapFile = log.initial

\* _get_or_create_doc with doc_id configured returns it at once: the step
\* takes the configured id, computes no group key and loads no map.
ConfiguredDocReturned ==
  pc = "g_doc" =>
    /\ pc' = "g_tab"
    /\ frame' = [frame EXCEPT !.doc_id = cfg.doc_id]
    /\ UNCHANGED <<stores, log>>

\* C25: a non-empty doc_id, or use_weekly_docs false, forces the Single
\* document strategy whatever doc_grouping says; with doc_id configured
\* _get_or_create_doc returns that id for every timestamp, creates no
\* document and neither loads nor writes the map file.
ConfiguredDocForcesSingle ==
  /\ []((Constructed /\ ~DocGroupingInspected(cfg)) => DocStrategy(cfg) = "single")
  /\ [](cfg.doc_id # "" => ConfiguredDocAlone)
  /\ [][cfg.doc_id # "" => ConfiguredDocReturned]_vars

\* With doc_id configured, a doc_grouping no strategy has and a map file
\* there, memos of two weeks were resolved and an entry was appended.
TwoWeeksInConfiguredDoc ==
  /\ cfg.doc_id = ConfiguredDoc
  /\ cfg.doc_grouping = "bogus"
  /\ docsMapFile.exists
  /\ \E r1, r2 \in calls.resolved :
       WeeklyKey(Memo(r1.memo).dt) # WeeklyKey(Memo(r2.memo).dt)
  /\ Len(calls.done) > 0

\* Single-document mode: use_weekly_docs is false and no doc_id is given.
SingleMode == cfg.doc_id = "" /\ cfg.use_weekly_docs = "false"

\* The documents created and recorded in the map file.
SavedCreates == {i \in DOMAIN log.creates : log.creates[i].persisted}

IsMonday(day) == (day - 20115 + 7000) % 7 = 0

SameWeek(d1, d2) ==
  \E m \in (d1 - 6)..d1 : IsMonday(m) /\ d2 \in m..(m + 6)

KnownMondays ==
  (20118 :> "2025-01-27") @@ (20115 :> "2025-01-27")
    @@ (20121 :> "2025-01-27") @@ (20122 :> "2025-02-03")
    @@ (20093 :> "2024-12-30") @@ (20089 :> "2024-12-30")
    @@ (19782 :> "2024-02-26") @@ (19785 :> "2024-02-26")

\* C27: for every timestamp the weekly group key is the date, written
\* YYYY-MM-DD, of the Monday of the timestamp's week: a Monday has its own
\* date, Tuesday to Sunday the date of the Monday before, so that the
\* seven days of a week share a key and no other day has it.
WeeklyKeyIsMonday ==
  (frame.op = "keys" /\ DocStrategy(cfg) = "weekly") =>
    /\ \E m \in (frame.dt.days - 6)..frame.dt.days :
         /\ IsMonday(m)
         /\ frame.group_key = IsoDate(Civil(m))
    /\ IsMonday(frame.dt.days) => frame.group_key = IsoDate(Civil(frame.dt.days))
    /\ frame.dt.days \in DOMAIN KnownMondays =>
         frame.group_key = KnownMondays[frame.dt.days]
    /\ \A d \in StrategyDays :
         (WeeklyKey([days |-> d, hour |-> 0]) = frame.group_key)
           <=> SameWeek(d, frame.dt.days)

ThursdayKeyedByMonday ==
  /\ frame.op = "keys"
  /\ DocStrategy(cfg) = "weekly"
  /\ frame.dt.days = 20118
  /\ frame.dt.hour = 23
  /\ frame.group_key = "2025-01-27"

DurationOf(m) == IF "duration" \in DOMAIN m THEN m.duration ELSE 0

KeyOfName ==
  ("Quick Notes" :> "quick-notes") @@ ("Standard" :> "standard")
    @@ ("Extended" :> "extended") @@ ("Short" :> "short")
    @@ ("Long" :> "long")

InRange(r, v) == r.lo <= v /\ v < r.hi

FirstMatchKeyed(ranges, v, key) ==
  IF \E i \in 1..Len(ranges) : InRange(ranges[i], v)
    THEN \E i \in 1..Len(ranges) :
           /\ InRange(ranges[i], v)
           /\ \A j \in 1..(i - 1) : ~InRange(ranges[j], v)
           /\ key = KeyOfName[ranges[i].name]
    ELSE key = "unknown"

DurationExamples(ranges, v, key) ==
  /\ (ranges = TwoDurations /\ v = 90) => key = "quick-notes"
  /\ (ranges = TwoDurations /\ v = 120) => key = "standard"
  /\ (ranges = TwoDurations /\ v \in {600, 700}) => key = "unknown"
  /\ (ranges = DefaultDurationRanges /\ v = 600) => key = "extended"
  /\ (ranges = OverlappingDurations /\ v = 90) => key = "short"
  /\ (ranges = OverlappingDurations /\ v = 0) => key = "quick-notes"

\* C28: with duration tab grouping the tab key is the name, in lower case
\* with hyphens for spaces, of the first range in configured order with
\* min <= duration < max; a duration equal to the max of a range is not in
\* it; a missing duration counts as 0; the key is "unknown" when no range
\* matches.
DurationKeyIsFirstMatch ==
  (frame.op = "keys" /\ TabStrategy(cfg) = "duration") =>
    /\ FirstMatchKeyed(DurationRanges(cfg), DurationOf(frame.metadata),
                       frame.tab_key)
    /\ DurationExamples(DurationRanges(cfg), DurationOf(frame.metadata),
                        frame.tab_key)
    /\ "duration" \notin DOMAIN frame.metadata =>
         FirstMatchKeyed(DurationRanges(cfg), 0, frame.tab_key)

DurationAtMaxInNextRange ==
  /\ frame.op = "keys"
  /\ TabStrategy(cfg) = "duration"
  /\ DurationRanges(cfg) = TwoDurations
  /\ "duration" \in DOMAIN frame.metadata
  /\ frame.metadata.duration = 120
  /\ frame.tab_key = "standard"

TimeKeyOfName ==
  ("Morning" :> "morning") @@ ("Afternoon" :> "afternoon")
    @@ ("Evening" :> "evening") @@ ("Night" :> "night")
    @@ ("Work Day" :> "work-day") @@ ("Late Night" :> "late-night")
    @@ ("Early" :> "early") @@ ("Day" :> "day") @@ ("morning" :> "morning")

\* The range of ranges that produces the key of hour; 0 when there is none.
Producer(ranges, hour) ==
  IF \E i \in 1..Len(ranges) : InRange(ranges[i], hour)
    THEN CHOOSE i \in 1..Len(ranges) :
           /\ InRange(ranges[i], hour)
           /\ \A j \in 1..(i - 1) : ~InRange(ranges[j], hour)
    ELSE 0

TitleOfRange(r) ==
  r.name \o " (" \o ToString(r.lo) \o ":00-" \o ToString(r.hi) \o ":00)"

TimeKeyIsFirstMatch ==
  (frame.op = "keys" /\ TabStrategy(cfg) = "time-of-day") =>
    frame.tab_key =
      IF Producer(TimeRanges(cfg), frame.dt.hour) = 0 THEN "unknown"
      ELSE TimeKeyOfName[
             TimeRanges(cfg)[Producer(TimeRanges(cfg), frame.dt.hour)].name]

TimeTitleNamesProducer ==
  (/\ frame.op = "keys"
   /\ TabStrategy(cfg) = "time-of-day"
   /\ Producer(TimeRanges(cfg), frame.dt.hour) # 0) =>
    frame.tab_title =
      TitleOfRange(TimeRanges(cfg)[Producer(TimeRanges(cfg), frame.dt.hour)])

\* C29: with time-of-day tab grouping, for every hour 0..23 the tab key is
\* the name, in lower case with hyphens for spaces, of the first
\* configured range with start <= hour < end, and "unknown" when no range
\* contains the hour; get_tab_title maps the key back to the range that
\* produced it.
TimeOfDayKeyAndTitle == TimeKeyIsFirstMatch /\ TimeTitleNamesProducer

\* The same for configurations whose range names stay distinct in lower
\* case with hyphens for spaces.
DistinctRangeNames(ranges) ==
  \A i, j \in 1..Len(ranges) :
    TimeKeyOfName[ranges[i].name] = TimeKeyOfName[ranges[j].name] => i = j

TimeTitleOfDistinctNames ==
  DistinctRangeNames(TimeRanges(cfg)) => TimeOfDayKeyAndTitle

\* The destination is Google Docs without tab grouping.
NoTabs == cfg.dest = "google" /\ TabStrategy(cfg) = "none"

\* prepare_for_memo is never at the creation of a tab or of its header, no
\* tab is created, and every session id is the id of the document alone.
NoTabsPrepare ==
  /\ pc \notin {"g_addtab", "g_header"}
  /\ log.tabs = << >>
  /\ log.headers = << >>
  /\ \A r \in calls.resolved : r.session = r.doc_id

\* The step of prepare_for_memo after the document is known returns: there
\* is no listing of tabs that could fail.
NoTabsNoListing ==
  (frame.op = "prepare" /\ pc = "g_tab") =>
    /\ faults' = faults
    /\ calls'.last.ok
    /\ calls'.last.result = frame.doc_id
    /\ remoteDocs' = remoteDocs

\* get_cache_key returned the key of the document alone.
NoTabsKey ==
  \A k \in calls.keys :
    \E probe_ok \in BOOLEAN :
      k.key = IF cfg.doc_id # "" THEN "single_doc"
              ELSE GetGroupKey(DocStrategy(cfg), Memo(k.memo).dt,
                               ExtractAudioMetadata(k.memo, probe_ok))

\* append_transcript reads its session id as the id of a document without
\* a tab.
NoTabsAppendParses ==
  frame.op = "append" =>
    ParseSession(frame.session) = [doc_id |-> frame.session, tab_id |-> ""]

\* A step of append_transcript changes nothing but the body of the document
\* its session id names (the body is that of the first tab).
NoTabsAppendsToBody ==
  frame.op = "append" =>
    /\ DOMAIN remoteDocs' = DOMAIN remoteDocs
    /\ \A d \in DOMAIN remoteDocs :
         /\ Len(remoteDocs'[d].tabs) = Len(remoteDocs[d].tabs)
         /\ \A i \in 1..Len(remoteDocs[d].tabs) :
              remoteDocs'[d].tabs[i] # remoteDocs[d].tabs[i] =>
                d = frame.session /\ i = 1

\* C30: with tab grouping "none", prepare_for_memo never lists or creates
\* tabs and returns the document id alone, get_cache_key returns the key of
\* the document alone, and every append_transcript for such a session
\* inserts into the top-level body of the document.
NoTabsUsesDocumentBody ==
  /\ [](NoTabs => NoTabsPrepare /\ NoTabsKey /\ NoTabsAppendParses)
  /\ [][NoTabs => NoTabsNoListing /\ NoTabsAppendsToBody]_vars

\* The same for document ids without a colon.
NoTabsOfPlainIds ==
  /\ []((NoTabs /\ cfg.doc_id # PastedUrl) =>
          NoTabsPrepare /\ NoTabsKey /\ NoTabsAppendParses)
  /\ [][(NoTabs /\ cfg.doc_id # PastedUrl) =>
          NoTabsNoListing /\ NoTabsAppendsToBody]_vars

\* An entry has been inserted into the body of a document without tabs.
BodyInsertWithoutTabs ==
  /\ NoTabs
  /\ cfg.doc_id # PastedUrl
  /\ \E i \in 1..Len(log.inserts) :
       log.inserts[i].container \in DOMAIN remoteDocs
  /\ calls.keys # {}

\* The runs of ffprobe that fail in a way the except clause or the check of
\* the exit code provides for.
HandledRuns(name) ==
  { p \in ProbeRuns(name) :
      \/ p.raised \in CaughtExceptions
      \/ p.raised = "" /\ p.returncode # 0
      \/ p.raised = "" /\ p.stdout.type = "invalid" }

\* Tool missing, timeout, error exit and output that is not JSON give the
\* empty dict, and the output of ffprobe gives the metadata of the file.
HandledFailuresGiveEmpty ==
  \A name \in recordings :
    /\ \A p \in HandledRuns(name) : ExtractAudioMetadataOf(p) = Returned(<< >>)
    /\ ExtractAudioMetadataOf(RunExits(0, FfprobeOutput(name)))
         = Returned(Memo(name).meta)

\* No destination call has ended with an exception of the extraction.
NoCallRaisedByExtraction ==
  calls.last.ok \/ calls.last.result = ""

\* C31: extract_audio_metadata never raises: for every failure of the probe
\* (tool missing, error exit, timeout, permission error, output that is not
\* JSON or not of the expected shape) it returns the empty dict, so that
\* get_cache_key, prepare_for_memo and append_transcript never fail because
\* of the extraction.
ExtractionNeverRaises ==
  /\ \A name \in recordings : \A p \in ProbeRuns(name) :
       ExtractAudioMetadataOf(p).raised = ""
  /\ NoCallRaisedByExtraction

\* The run is inside get_or_create_doc.
InGetOrCreateDoc == pc \in {"s_getdoc", "s_create", "s_persist"}

\* The loop takes up its next memo.
TakesNextMemo == pc = "s_item" /\ pc' \in {"s_getdoc", "s_transcribe"}

\* The week of the memo has been taken up before in this run.
WeekTakenBefore(key) ==
  \E i \in 1..Len(log.attempts) :
    /\ log.attempts[i].run = run
    /\ ~Memo(log.attempts[i].memo).small
    /\ WeeklyKey(Memo(log.attempts[i].memo).dt) = key

\* A memo of a week that doc_cache holds gets the cached id and
\* get_or_create_doc is not called; the entries of doc_cache stay as they
\* are while the run goes on.
CacheReused ==
  /\ (TakesNextMemo /\ orch'.key \in DOMAIN orch.cache) =>
       /\ pc' = "s_transcribe"
       /\ orch'.session = orch.cache[orch'.key]
       /\ stores' = stores
  /\ (run' = run /\ pc' # "killed") =>
       \A k \in DOMAIN orch.cache :
         k \in DOMAIN orch'.cache /\ orch'.cache[k] = orch.cache[k]

\* The persisted map holds the cached id for the week.
CachedIsPersisted(k) ==
  /\ docsMapFile.exists
  /\ k \in DOMAIN LoadFlatMap(docsMapFile)
  /\ LoadFlatMap(docsMapFile)[k] = orch.cache[k]

\* C32 as stated: within a run a resolved week is served from the cache
\* without another query, get_or_create_doc is invoked at most once for each
\* week, and a cached id always equals the id the persisted map holds for
\* the week.
CacheOncePerKeyAndPersisted ==
  /\ [](cfg.driver = "script" =>
          /\ InGetOrCreateDoc => orch.key \notin DOMAIN orch.cache
          /\ \A k \in DOMAIN orch.cache : CachedIsPersisted(k))
  /\ [][cfg.driver = "script" =>
          /\ CacheReused
          /\ (TakesNextMemo /\ pc' = "s_getdoc") => ~WeekTakenBefore(orch'.key)
       ]_vars

\* C32, amended: within a run a resolved week is served from the cache
\* without another query of the map file or the service, and
\* get_or_create_doc is not invoked for a week once it has returned for it
\* (after a call that raised it is invoked again for the next memo of the
\* week); a cached id is the configured document id when one is configured,
\* and otherwise the id the persisted map holds for the week.
CacheMonotonicInRun ==
  /\ [](cfg.driver = "script" =>
          /\ InGetOrCreateDoc => orch.key \notin DOMAIN orch.cache
          /\ \A k \in DOMAIN orch.cache :
               IF cfg.doc_id # "" THEN orch.cache[k] = cfg.doc_id
               ELSE CachedIsPersisted(k))
  /\ [][cfg.driver = "script" => CacheReused]_vars

\* The second memo of a week is being handled with the id cached for the
\* first, whose entry has been inserted.
SecondMemoFromCache ==
  /\ cfg.driver = "script"
  /\ pc = "s_transcribe"
  /\ orch.key \in DOMAIN orch.cache
  /\ orch.session = orch.cache[orch.key]
  /\ \E i \in 1..Len(log.inserts) :
       /\ log.inserts[i].run = run
       /\ log.inserts[i].memo # orch.cur
       /\ log.inserts[i].container = orch.session
       /\ WeeklyKey(Memo(log.inserts[i].memo).dt) = orch.key

\* Two documents have been created for one group key.
TwoDocsForOneKey ==
  \E i, j \in 1..Len(log.creates) :
    /\ i < j
    /\ log.creates[i].key = log.creates[j].key
    /\ log.creates[i].doc_id # log.creates[j].doc_id

SequentialSecondResolved ==
  /\ ~orch.interleaved
  /\ ~TwoDocsForOneKey
  /\ Len(log.creates) = 1
  /\ \E r \in calls.resolved :
       /\ r.doc_id = log.creates[1].doc_id
       /\ run # log.creates[1].run
       /\ GroupKeyOf(Memo(r.memo)) = log.creates[1].key

\* The map file as the call in progress writes it: the map it loaded with
\* its new entry, whatever the file holds by now.
WrittenFromLoaded ==
  [exists |-> TRUE,
   json |-> [frame.docs_map EXCEPT
               !["groups"] = (frame.group_key :> frame.doc_id)
                               @@ frame.docs_map["groups"]]]

\* C34: the map file is written whole, the last write wins and nothing is
\* locked: every write leaves the file exactly as the map of the writing
\* invocation, so that when two interleaved invocations each create a
\* document for a different group key the entry of the one that wrote first
\* can be absent from the file.
LastWriteWins ==
  [][docsMapFile' # docsMapFile => docsMapFile' = WrittenFromLoaded]_vars

\* Two invocations have each created a document for a different group key
\* and written the map file, and the file lacks the entry of the first.
EntryLostToLaterWrite ==
  \E i, j \in 1..Len(log.creates) :
    /\ log.creates[i].run # log.creates[j].run
    /\ log.creates[i].key # log.creates[j].key
    /\ log.creates[i].persisted
    /\ log.creates[j].persisted
    /\ docsMapFile.exists
    /\ log.creates[i].key \notin DOMAIN LoadDocsMap(docsMapFile)["groups"]
    /\ LoadDocsMap(docsMapFile)["groups"][log.creates[j].key]
         = log.creates[j].doc_id

\* The ids the map file held at the start, under any key.
StoredIds == { LoadDocsMap(log.initial)["groups"][k] :
                 k \in DOMAIN LoadDocsMap(log.initial)["groups"] }

CreatedIds == { log.creates[i].doc_id : i \in 1..Len(log.creates) }

\* _get_or_create_doc has returned frame.doc_id.
DocReturned == pc = "g_tab"

\* The map file is tagged with the mode "single" and has no "single"
\* section, and the strategy asks for the group "single".
SingleSectionAbsent ==
  /\ log.initial.exists
  /\ "mode" \in DOMAIN log.initial.json
  /\ log.initial.json["mode"] = "single"
  /\ "single" \notin DOMAIN log.initial.json
  /\ cfg.doc_id = ""
  /\ DocStrategy(cfg) = "single"

UsableDocId(doc_id) ==
  /\ doc_id # "None"
  /\ doc_id \in DOMAIN remoteDocs
  /\ doc_id \in StoredIds \cup CreatedIds \cup {cfg.doc_id}

\* C35: whatever the map file held (nothing, the flat, the canonical or a
\* mode-tagged format, the section of the mode present or absent), the value
\* _get_or_create_doc returns is an id that is not null, names a document of
\* the service, and is the id the file stored or the id of a document the
\* tool created (or the configured id).
ReturnsUsableDocId == DocReturned => UsableDocId(frame.doc_id)

\* The same for every file but the one tagged "single" without its section.
UsableUnlessSingleAbsent ==
  (DocReturned /\ ~SingleSectionAbsent) => UsableDocId(frame.doc_id)

\* _get_or_create_doc returned None for the file without the section.
ReturnedNone == DocReturned /\ SingleSectionAbsent /\ frame.doc_id = "None"

\* With the null id no transcript is appended and no document is created.
NullIdIsNeverRepaired ==
  SingleSectionAbsent => log.creates = << >> /\ calls.done = << >>

\* The sessions of the tabs this tool added, and of those with a header.
CreatedTabs ==
  { SessionId(log.tabs[i].doc_id, log.tabs[i].tab_id) : i \in DOMAIN log.tabs }

HeadedTabs == { log.headers[k] : k \in DOMAIN log.headers }

\* The body of the tab of this session begins with the header of its title.
BeginsWithHeader(s) ==
  \E name \in recordings :
    /\ Len(BodyOf(remoteDocs, s.doc_id, s.tab_id))
         >= Len(TabHeader(TabTitleOf(Memo(name))))
    /\ SubSeq(BodyOf(remoteDocs, s.doc_id, s.tab_id), 1,
              Len(TabHeader(TabTitleOf(Memo(name)))))
         = TabHeader(TabTitleOf(Memo(name)))

\* The header goes into the tab the same call has just added, and into no
\* tab twice: a tab found in the listing gets none.
HeaderOnlyAfterAddTab ==
  [][log'.headers # log.headers =>
       /\ pc = "g_header"
       /\ log.tabs # << >>
       /\ log.tabs[Len(log.tabs)].tab_id = frame.tab_id
       /\ log.tabs[Len(log.tabs)].doc_id = frame.doc_id
       /\ ~log.tabs[Len(log.tabs)].listed
       /\ SessionId(frame.doc_id, frame.tab_id) \notin HeadedTabs
       /\ log'.headers = Append(log.headers,
                                SessionId(frame.doc_id, frame.tab_id))]_vars

\* C36: a header is inserted only as the second step of the creation of a
\* tab that did not exist, never into a reused tab, and every entry appended
\* into a tab this tool created went into a tab whose header had been
\* inserted, also after a creation that failed between its two steps.
HeaderBeforeEveryEntry ==
  /\ HeaderOnlyAfterAddTab
  /\ [](\A i \in DOMAIN log.inserts :
          log.inserts[i].container \in CreatedTabs =>
            /\ log.inserts[i].container \in HeadedTabs
            /\ BeginsWithHeader(ParseSession(log.inserts[i].container)))

\* While no call of the service has failed, every tab the tool created and
\* returned has its header, and so has every tab an entry went into.
HeaderBeforeEntryWithoutFailure ==
  faults = 0 =>
    /\ \A i \in DOMAIN log.inserts :
         log.inserts[i].container \in CreatedTabs =>
           /\ log.inserts[i].container \in HeadedTabs
           /\ BeginsWithHeader(ParseSession(log.inserts[i].container))
    /\ \A s \in calls.sessions : s \in CreatedTabs => s \in HeadedTabs

\* The insert of the header failed, the next prepare_for_memo found the tab
\* by its title and returned it, and an entry was appended to it: the tab
\* holds the entry and no header.
EntryInHeaderlessTab ==
  \E i \in DOMAIN log.inserts :
    /\ log.inserts[i].container \in CreatedTabs \ HeadedTabs
    /\ ~BeginsWithHeader(ParseSession(log.inserts[i].container))

\* A tab was created with its header and an entry was appended to it.
EntryInHeadedTab ==
  \E i \in DOMAIN log.inserts :
    /\ log.inserts[i].container \in HeadedTabs
    /\ BeginsWithHeader(ParseSession(log.inserts[i].container))

\* main() is in its loop over the memos.
InLoop == pc \notin {"idle", "s_connect", "done", "killed"}

\* processed.json holds the set the loop has in memory.
WriteThrough == InLoop => processedFile = orch.processed

\* Every marker set so far, in this run or an earlier one, is in the file.
AllMarksPersisted == \A m \in log.marked : m.memo \in processedFile

Discovered == Cardinality({f \in log.found : f.run = run})

Undersized ==
  Cardinality({m \in log.marked : m.run = run /\ Memo(m.memo).small})

\* The memo marked by this step, when it is one smaller than 1000 bytes.
SmallMarkedByStep(name) ==
  /\ Memo(name).small
  /\ [memo |-> name, run |-> run] \in log'.marked \ log.marked

\* main() has gone through all the memos it found.
LoopOver == cfg.driver = "script" /\ pc = "done" /\ run \notin log.fatal

\* C38: a memo smaller than 1000 bytes is marked and the processed set
\* saved without a document being looked up or created, without
\* transcription and without an append, and it is counted neither in
\* success_count nor in failed_count; when the loop is over success_count,
\* failed_count and the number of undersized memos add up to the number of
\* memos found.
SmallSkippedAndCountsAddUp ==
  /\ [][\A name \in recordings :
          SmallMarkedByStep(name) =>
            /\ processedFile' = processedFile \cup {name}
            /\ name \in orch'.processed
            /\ UNCHANGED <<docsMapFile, remoteDocs, frame, log.inserts,
                           log.creates, log.failures>>
            /\ orch'.cache = orch.cache
            /\ orch'.transcript = orch.transcript
            /\ orch'.success_count = orch.success_count
            /\ orch'.failed_memos = orch.failed_memos]_vars
  /\ [](\A i \in DOMAIN log.inserts : ~Memo(log.inserts[i].memo).small)
  /\ [](\A f \in log.failures : ~Memo(f.memo).small)
  /\ [](LoopOver =>
          orch.success_count + Len(orch.failed_memos) + Undersized
            = Discovered)

\* The counts add up at every point of the loop, with the memos still to
\* come and the one in hand.
CountsAddUpInLoop ==
  (cfg.driver = "script" /\ InLoop) =>
    orch.success_count + Len(orch.failed_memos) + Undersized
        + Len(orch.todo) + (IF orch.cur # "" THEN 1 ELSE 0)
      = Discovered

\* The loop is over for a small memo and another one: the small one is in
\* processed.json and in neither count.
SmallSkippedInFinishedRun ==
  /\ LoopOver
  /\ Undersized = 1
  /\ Discovered = 2
  /\ orch.success_count + Len(orch.failed_memos) = 1
  /\ \E m \in log.marked : Memo(m.memo).small /\ m.memo \in processedFile

\* append_transcript has just returned for this file.
AppendReturned(path) ==
  /\ calls.last.op = "append"
  /\ calls.last.ok
  /\ calls.last.container = path

\* C39: for a file the destination created with frontmatter, after every
\* append_transcript that returns, in the run that created the file or in a
\* later run with a new destination object, the memo_count of the
\* frontmatter is the number of entries appended to the file so far.
CountIsEntriesAfterAppend ==
  (cfg.dest = "obsidian" /\ cfg.include_frontmatter) =>
    \A path \in DOMAIN vault :
      AppendReturned(path) =>
        ReadCount(vault[path]) = Cardinality(EntriesWritten(path))

\* The same while no call has failed after it wrote its entry: all the
\* entries of the file are those of calls that returned.
CountIsEntriesOfReturnedCalls ==
  (cfg.dest = "obsidian" /\ cfg.include_frontmatter) =>
    \A path \in DOMAIN vault :
      (AppendReturned(path)
         /\ Cardinality(EntriesWritten(path))
              = Cardinality(SuccessfulAppends(path))) =>
        ReadCount(vault[path]) = Cardinality(EntriesWritten(path))

\* The destination of the second run has read the count from the file and
\* written it back one higher.
CountReadBackInLaterRun ==
  /\ run = 2
  /\ \E path \in DOMAIN vault :
       /\ AppendReturned(path)
       /\ \E i \in EntriesWritten(path) : log.inserts[i].run = 1
       /\ Cardinality(EntriesWritten(path)) = 2
       /\ ReadCount(vault[path]) = 2

\* An append wrote its entry and raised in _update_memo_count; the next
\* append returned and left a count lower than the number of entries.
CountBehindEntries ==
  \E path \in DOMAIN vault :
    /\ AppendReturned(path)
    /\ ReadCount(vault[path]) < Cardinality(EntriesWritten(path))

\* When the write of the count failed the destination keeps the incremented
\* count, and the next append of the same run writes a count higher than
\* the number of calls that returned.
CountAheadOfReturnedCalls ==
  \E path \in DOMAIN vault :
    /\ AppendReturned(path)
    /\ ReadCount(vault[path]) > Cardinality(SuccessfulAppends(path))

\* split_audio_file has returned or raised.
SplitEnded == pc \in {"sp_done", "sp_raised"}

EveryChunkAdvances ==
  [][(pc = "sp_loop" /\ pc' = "sp_loop") =>
       frame'.start_time > frame.start_time]_vars

\* With a chunk length of at least one second the loop is left, after at
\* most as many chunks as the duration has seconds.
SplitTerminatesWithPositiveChunk ==
  /\ [](pc = "sp_loop" /\ frame.chunk_duration >= 1 => <>SplitEnded)
  /\ [](pc \in {"sp_loop", "sp_done"} /\ frame.chunk_duration >= 1 =>
          frame.chunks * 10 <= frame.duration_seconds + 9)

\* With a chunk length of zero start_time stays 0 and the loop condition
\* stays true; the loop is left only when ffmpeg fails.
ZeroChunkNeverReturns ==
  /\ [][(pc = "sp_loop" /\ frame.chunk_duration = 0 /\ MoreChunks) =>
          \/ pc' = "sp_raised"
          \/ pc' = "sp_loop" /\ frame'.start_time = 0 /\ MoreChunks']_vars
  /\ [](pc = "sp_done" /\ frame.file_size_mb > frame.max_size_mb * 10 =>
          frame.chunk_duration >= 1 \/ frame.duration_seconds = 0)

\* A file larger than max_size_mb whose duration is positive and shorter
\* than file_size_mb / max_size_mb seconds: chunks are written and
\* start_time is still 0.
SplitLoopsOnZeroChunk ==
  /\ pc = "sp_loop"
  /\ frame.file_size_mb > frame.max_size_mb * 10
  /\ frame.duration_seconds > 0
  /\ frame.chunk_duration = 0
  /\ frame.chunk_num = MaxChunks
  /\ frame.start_time = 0

\* A file was split into chunks that cover its duration.
SplitIntoChunks ==
  /\ pc = "sp_done"
  /\ frame.chunks >= 3
  /\ frame.start_time * 10 >= frame.duration_seconds

=============================================================================
